---------------------------- MODULE Spec2Model ----------------------------
(***************************************************************************)
(* A model of bagit.py (src/bagit.py): one bag directory on disk, one Bag  *)
(* object in memory, and the operations make_bag, Bag(...), Bag.save and   *)
(* Bag.validate, together with the changes a user makes to the directory   *)
(* between those calls.                                                    *)
(*                                                                         *)
(* Text is a sequence of tokens.  The tokens "CR", "LF", "%", "0", "A",    *)
(* "D", "a", "b", "d", "/" and "." stand for single characters; every      *)
(* other token ("data", "..", "bag-info.txt", a number) stands for the     *)
(* run of characters it spells, none of which takes part in an escape.     *)
(*                                                                         *)
(* A digest is modelled as the pair <<algorithm, content>>: an injective   *)
(* hash.                                                                   *)
(***************************************************************************)
EXTENDS Naturals, Integers, Sequences, FiniteSets, TLC

(***************************************************************************)
(* Bounds of the model.                                                    *)
(***************************************************************************)
MaxFiles == 2        \* at most this many files under data/ at any time
MaxEdits == 2        \* at most this many changes made to the directory by hand

(***************************************************************************)
(* Text helpers.                                                           *)
(***************************************************************************)
\* Python's re.IGNORECASE, the value bagit.py passes where re.sub expects count
re_IGNORECASE == 2

\* byte order of the characters of the model, as Python compares str
CharOrder == <<"LF", "CR", "%", ".", "..", "/", "0", "A", "D", "IGNOREFILE", "a", "b",
               "bag-info.txt", "bagit.txt", "d", "data", "manifest-", "md5", "package-info.txt",
               "sha1",
               "tagmanifest-", ".txt">>

RECURSIVE IndexIn(_, _, _)
IndexIn(c, s, i) ==
    IF i > Len(s) THEN 0
    ELSE IF s[i] = c THEN i
    ELSE IndexIn(c, s, i + 1)

Ord(c) == IndexIn(c, CharOrder, 1)

\* s < t in the lexicographic order of Python strings
RECURSIVE StrLess(_, _)
StrLess(s, t) ==
    IF t = <<>> THEN FALSE
    ELSE IF s = <<>> THEN TRUE
    ELSE IF Head(s) = Head(t) THEN StrLess(Tail(s), Tail(t))
    ELSE Ord(Head(s)) < Ord(Head(t))

StartsWith(s, p) == Len(s) >= Len(p) /\ SubSeq(s, 1, Len(p)) = p

\* str.replace(old, new): every occurrence, left to right
RECURSIVE Replace(_, _, _)
Replace(s, old, new) ==
    IF s = <<>> THEN <<>>
    ELSE IF StartsWith(s, old)
         THEN new \o Replace(SubSeq(s, Len(old) + 1, Len(s)), old, new)
         ELSE <<Head(s)>> \o Replace(Tail(s), old, new)

\* re.sub(pat, repl, s, count) for a literal pattern: the first `count'
\* occurrences, left to right; count = 0 replaces them all
RECURSIVE ReSub(_, _, _, _)
ReSub(pat, repl, s, count) ==
    IF count = 0 THEN Replace(s, pat, repl)
    ELSE IF s = <<>> THEN <<>>
    ELSE IF StartsWith(s, pat)
         THEN repl \o (IF count = 1 THEN SubSeq(s, Len(pat) + 1, Len(s))
                       ELSE ReSub(pat, repl, SubSeq(s, Len(pat) + 1, Len(s)), count - 1))
         ELSE <<Head(s)>> \o ReSub(pat, repl, Tail(s), count)

\* s.replace("\r", "%0D"); s.replace("\n", "%0A")
_encode_filename(s) ==
    Replace(Replace(s, <<"CR">>, <<"%", "0", "D">>), <<"LF">>, <<"%", "0", "A">>)

\* re.sub("%0D", "\r", s, re.IGNORECASE); re.sub("%0A", "\n", s, re.IGNORECASE):
\* the fourth positional argument of re.sub is count, so the flag is taken as
\* count = 2 and the match stays case-sensitive
_decode_filename(s) ==
    ReSub(<<"%", "0", "A">>, <<"LF">>,
          ReSub(<<"%", "0", "D">>, <<"CR">>, s, re_IGNORECASE), re_IGNORECASE)

\* str.split("/")
RECURSIVE SplitSlash(_, _)
SplitSlash(s, cur) ==
    IF s = <<>> THEN <<cur>>
    ELSE IF Head(s) = "/" THEN <<cur>> \o SplitSlash(Tail(s), <<>>)
    ELSE SplitSlash(Tail(s), Append(cur, Head(s)))

RECURSIVE JoinSlash(_)
JoinSlash(comps) ==
    IF comps = <<>> THEN <<>>
    ELSE IF Len(comps) = 1 THEN comps[1]
    ELSE comps[1] \o <<"/">> \o JoinSlash(Tail(comps))

RECURSIVE NormComps(_, _, _)
NormComps(comps, new, initial_slashes) ==
    IF comps = <<>> THEN new
    ELSE LET comp == Head(comps) IN
         IF comp = <<>> \/ comp = <<".">>
         THEN NormComps(Tail(comps), new, initial_slashes)
         ELSE IF comp # <<"..">>
                 \/ (~initial_slashes /\ new = <<>>)
                 \/ (new # <<>> /\ new[Len(new)] = <<"..">>)
         THEN NormComps(Tail(comps), Append(new, comp), initial_slashes)
         ELSE IF new # <<>>
         THEN NormComps(Tail(comps), SubSeq(new, 1, Len(new) - 1), initial_slashes)
         ELSE NormComps(Tail(comps), new, initial_slashes)

\* os.path.normpath on a POSIX host
normpath(path) ==
    LET initial_slashes == path # <<>> /\ Head(path) = "/"
        joined == JoinSlash(NormComps(SplitSlash(path, <<>>), <<>>, initial_slashes))
        p == IF initial_slashes THEN <<"/">> \o joined ELSE joined
    IN  IF p = <<>> THEN <<".">> ELSE p

\* the elements of a set of strings as a sorted list (list.sort)
RECURSIVE SortStrings(_)
SortStrings(S) ==
    IF S = {} THEN <<>>
    ELSE LET m == CHOOSE x \in S : \A y \in S \ {x} : StrLess(x, y)
         IN  <<m>> \o SortStrings(S \ {m})

(***************************************************************************)
(* The inputs of the model.                                                *)
(***************************************************************************)
checksum_algos == <<"md5", "sha1", "sha256", "sha512">>

\* the values of make_bag's checksum argument: <<>> is "not given"
ChecksumInputs == {<<>>, <<"md5", "sha1">>}

\* the values of the processes arguments
ProcessInputs == {1, 2}

\* file names: a plain one, one ending in a carriage return (test.py,
\* "newline\r") and one spelling the escape sequence %0A
PayloadNames == {<<"a">>, <<"a", "CR">>, <<"%", "0", "A">>}

\* the directories make_bag is called on: empty, one plain file, two files
\* one of whose names ends in a carriage return, one file whose name spells %0A
InitialDirs ==
    {[n \in {} |-> "x"],
     [n \in {<<"a">>} |-> "x"],
     [n \in {<<"a">>, <<"a", "CR">>} |-> IF n = <<"a">> THEN "x" ELSE "zz"],
     [n \in {<<"%", "0", "A">>} |-> "x"]}

\* file contents; "x" and "y" have the same length
Contents == {"x", "y", "zz"}
Size(c) == IF c = "zz" THEN 2 ELSE 1

\* manifest paths a hand-written manifest may name (test.py, bad_paths)
UnsafePaths == {<<"..", "/", "..", "/", "a">>,
                <<"/", "a">>,
                <<"data", "/", "..", "/", "..", "/", "a">>}

\* hashlib: the hex digest of a file's bytes, one value per (algorithm, bytes)
Digest(alg, content) == <<alg, content>>

\* the bytes of a file, in one of three forms: the lines of a tag file (with or
\* without a byte-order mark), the lines of a manifest, and opaque bytes
TagFile(bom, lines) == [bom |-> bom, form |-> "tags", lines |-> lines]
ManifestFile(lines) == [bom |-> FALSE, form |-> "manifest", lines |-> lines]
Bytes(c) == [bom |-> FALSE, form |-> "bytes", lines |-> <<c>>]

BAGIT_TXT == <<"bagit.txt">>
BAG_INFO_TXT == <<"bag-info.txt">>
PACKAGE_INFO_TXT == <<"package-info.txt">>
IGNOREFILE == <<"IGNOREFILE">>
ManifestName(alg) == <<"manifest-", alg, ".txt">>
TagmanifestName(alg) == <<"tagmanifest-", alg, ".txt">>
DataPath(name) == <<"data", "/">> \o name

EmptyMap == [k \in {} |-> <<>>]
Range(s) == {s[i] : i \in 1..Len(s)}
Reverse(s) == [i \in 1..Len(s) |-> s[Len(s) + 1 - i]]

(***************************************************************************)
(* Tag files.  The text of a tag file is a sequence of tokens: names and   *)
(* words are single tokens, ":", " ", "CR" and "LF" are the characters the *)
(* parser looks at.  A value of the info map is <<"str", text>> or         *)
(* <<"list", <<text, ...>>>>.                                              *)
(***************************************************************************)
Str(text) == <<"str", text>>

\* the keys of an info map in the order of list.sort()
HeaderOrder == <<"Bag-Software-Agent", "Bagging-Date", "Contact-Name",
                "External-Identifier", "Payload-Oxum">>

\* re.sub('\n|\r|(\r\n)', '', txt)
StripNewlines(text) == SelectSeq(text, LAMBDA c : c # "CR" /\ c # "LF")

\* "%s: %s\n" % (h, txt)
TagLine(h, txt) == <<h, ":", " ">> \o txt \o <<"LF">>

RECURSIVE ListLines(_, _, _)
ListLines(h, vals, j) ==
    IF j > Len(vals) THEN <<>> ELSE TagLine(h, vals[j]) \o ListLines(h, vals, j + 1)

\* the loop of _make_tag_file over the sorted headers: a list value is written
\* one line per element, as it is; a single value with its CR and LF removed
RECURSIVE TagLines(_, _, _)
TagLines(bag_info, headers, i) ==
    IF i > Len(headers) THEN <<>>
    ELSE LET h == headers[i] IN
         (IF h \notin DOMAIN bag_info THEN <<>>
          ELSE IF bag_info[h][1] = "list"
               THEN ListLines(h, bag_info[h][2], 1)
               ELSE TagLine(h, StripNewlines(bag_info[h][2])))
         \o TagLines(bag_info, headers, i + 1)

\* the content _make_tag_file writes
_make_tag_file(bag_info) == TagFile(FALSE, TagLines(bag_info, HeaderOrder, 1))

\* str.isspace() on one character and str.strip()
IsSpace(c) == c \in {" ", "CR", "LF"}

RECURSIVE LStrip(_)
LStrip(text) == IF text # <<>> /\ IsSpace(Head(text)) THEN LStrip(Tail(text)) ELSE text

Strip(text) == Reverse(LStrip(Reverse(LStrip(text))))

\* the lines a file opened in text mode iterates over: CR, LF and CRLF end a
\* line (a CRLF gives an empty line more, which the parser skips as blank)
RECURSIVE SplitLines(_, _)
SplitLines(text, cur) ==
    IF text = <<>> THEN (IF cur = <<>> THEN <<>> ELSE <<cur>>)
    ELSE IF Head(text) \in {"CR", "LF"} THEN <<cur>> \o SplitLines(Tail(text), <<>>)
    ELSE SplitLines(Tail(text), Append(cur, Head(text)))

RECURSIVE Concat(_)
Concat(text) == IF text = <<>> THEN "" ELSE Head(text) \o Concat(Tail(text))

\* _parse_tags: [error, tags], tags the (name, value) pairs in file order.
\* tag_name "" is no tag yet (or an empty name, which is never yielded).
RECURSIVE _parse_tags(_, _, _, _, _, _)
_parse_tags(lines, i, tag_name, tag_value, started, out) ==
    LET yielded == IF tag_name # "" THEN Append(out, <<tag_name, Strip(tag_value)>>) ELSE out
    IN  IF i > Len(lines) THEN [error |-> FALSE, tags |-> yielded]
        ELSE LET line == lines[i] IN
        IF \A k \in 1..Len(line) : IsSpace(line[k])
        THEN _parse_tags(lines, i + 1, tag_name, tag_value, started, out)
        ELSE IF IsSpace(line[1]) /\ started
        THEN _parse_tags(lines, i + 1, tag_name, tag_value \o line \o <<"LF">>, started, out)
        ELSE IF ":" \notin Range(line)
        THEN [error |-> TRUE, tags |-> yielded]
        ELSE LET stripped == Strip(line)
                 colon == CHOOSE k \in 1..Len(stripped) :
                              stripped[k] = ":" /\ \A j \in 1..(k - 1) : stripped[j] # ":"
             IN  _parse_tags(lines, i + 1,
                             Concat(Strip(SubSeq(stripped, 1, colon - 1))),
                             SubSeq(stripped, colon + 1, Len(stripped)), TRUE, yielded)

ParsedTags(file) == _parse_tags(SplitLines(file.lines, <<>>), 1, "", <<>>, FALSE, <<>>)

\* _load_tag_file: a repeated name collects its values in a list
RECURSIVE LoadTags(_, _, _)
LoadTags(lines, i, tags) ==
    IF i > Len(lines) THEN tags
    ELSE LET name == lines[i][1]
             value == lines[i][2]
             new == IF name \notin DOMAIN tags THEN Str(value)
                    ELSE IF tags[name][1] # "list"
                         THEN <<"list", <<tags[name][2], value>> >>
                         ELSE <<"list", Append(tags[name][2], value)>>
         IN  LoadTags(lines, i + 1,
                      [k \in DOMAIN tags \cup {name} |-> IF k = name THEN new ELSE tags[k]])

\* _load_tag_file: a byte-order mark on the first line is skipped by _parse_tags;
\* a line without a colon makes it raise BagValidationError
_load_tag_file(file) == LoadTags(ParsedTags(file).tags, 1, EmptyMap)

\* "%s.%s" % (total_bytes, num_files)
FormatOxum(total_bytes, num_files) == <<ToString(total_bytes), ".", ToString(num_files)>>

\* str.isdigit() and int() on one token
OxumRange == 0..(2 * (MaxFiles + 1))
isdigit(tok) == \E n \in OxumRange : ToString(n) = tok
int(tok) == CHOOSE n \in OxumRange : ToString(n) = tok

(***************************************************************************)
(* Manifests.  A manifest or tagmanifest is a list of lines, a line is     *)
(* <<digest, path text>>.                                                  *)
(***************************************************************************)
\* _walk(data_dir): os.walk top-down with filenames and dirnames sorted: the
\* files of a directory in sorted order, then its subdirectories in sorted
\* order, each walked the same way.  names are the paths below the directory.
RECURSIVE WalkDir(_, _)
RECURSIVE WalkSubdirs(_, _, _)
WalkDir(dirpath, names) ==
    LET filenames == {n \in names : IndexIn("/", n, 1) = 0}
        dirnames == {SubSeq(n, 1, IndexIn("/", n, 1) - 1) : n \in names \ filenames}
        files == SortStrings(filenames)
    IN  [i \in 1..Len(files) |-> dirpath \o files[i]]
        \o WalkSubdirs(dirpath, names, SortStrings(dirnames))

WalkSubdirs(dirpath, names, dirs) ==
    IF dirs = <<>> THEN <<>>
    ELSE LET d == Head(dirs) \o <<"/">>
         IN  WalkDir(dirpath \o d,
                     {SubSeq(n, Len(d) + 1, Len(n)) : n \in {m \in names : StartsWith(m, d)}})
             \o WalkSubdirs(dirpath, names, Tail(dirs))

_walk(pl) == WalkDir(<<"data", "/">>, DOMAIN pl)

FileName(path) == SubSeq(path, 3, Len(path))

\* _manifest_line: (digest, decoded file name, size)
_manifest_line(filename, algorithm, pl) ==
    <<Digest(algorithm, Bytes(pl[FileName(filename)])),
      _decode_filename(filename),
      Size(pl[FileName(filename)])>>

RECURSIVE SumBytes(_, _)
SumBytes(checksums, i) ==
    IF i > Len(checksums) THEN 0 ELSE checksums[i][3] + SumBytes(checksums, i + 1)

\* _make_manifest: the lines written and the Oxum returned.  With processes > 1
\* pool.map hands back the results in the order of the walk, as map does.
_make_manifest(pl, processes, algorithm) ==
    LET files == _walk(pl)
        checksums == IF processes > 1
                     THEN [i \in 1..Len(files) |-> _manifest_line(files[i], algorithm, pl)]
                     ELSE [i \in 1..Len(files) |-> _manifest_line(files[i], algorithm, pl)]
    IN  [lines |-> [i \in 1..Len(checksums) |->
                        <<checksums[i][1], _encode_filename(checksums[i][2])>>],
         oxum  |-> FormatOxum(SumBytes(checksums, 1), Len(checksums))]

\* re.match('^tagmanifest-.+\.txt$', f)
IsTagmanifestName(f) == Len(f) = 3 /\ f[1] = "tagmanifest-" /\ f[3] = ".txt"

\* listdir(bag_dir) restricted to regular files: the order is the file system's;
\* the model lets it be the sorted order or its reverse
listdir(rt, reversed) ==
    IF reversed THEN Reverse(SortStrings(DOMAIN rt)) ELSE SortStrings(DOMAIN rt)

\* _make_tagmanifest_file: the lines written
_make_tagmanifest_file(alg, rt, reversed) ==
    LET files == SelectSeq(listdir(rt, reversed), LAMBDA f : ~IsTagmanifestName(f))
    IN  [i \in 1..Len(files) |-> <<Digest(alg, rt[files[i]]), files[i]>>]

\* the manifests (then the tagmanifests) of every algorithm, written one after
\* the other into the root
RECURSIVE WriteManifests(_, _, _, _)
WriteManifests(rt, pl, processes, algs) ==
    IF algs = <<>> THEN rt
    ELSE LET m == ManifestName(Head(algs))
             c == ManifestFile(_make_manifest(pl, processes, Head(algs)).lines)
         IN  WriteManifests([f \in DOMAIN rt \cup {m} |-> IF f = m THEN c ELSE rt[f]],
                            pl, processes, Tail(algs))

RECURSIVE WriteTagmanifests(_, _, _)
WriteTagmanifests(rt, algs, reversed) ==
    IF algs = <<>> THEN rt
    ELSE LET m == TagmanifestName(Head(algs))
             c == ManifestFile(_make_tagmanifest_file(Head(algs), rt, reversed))
         IN  WriteTagmanifests([f \in DOMAIN rt \cup {m} |-> IF f = m THEN c ELSE rt[f]],
                               Tail(algs), reversed)

WriteFile(rt, name, content) ==
    [f \in DOMAIN rt \cup {name} |-> IF f = name THEN content ELSE rt[f]]

(***************************************************************************)
(* The Bag object: [open, version, tag_file_name, info, entries, algs].    *)
(* entries maps a path to a map from algorithm to digest.  self.algs is a  *)
(* list in the code; it is read only through membership and through loops  *)
(* whose passes repeat the same writes, so the model keeps its set.        *)
(***************************************************************************)
AlgsPresent(rt, prefix) ==
    SelectSeq(checksum_algos, LAMBDA a : <<prefix, a, ".txt">> \in DOMAIN rt)

\* manifest_files() and tagmanifest_files(): the algorithms whose file exists
manifest_files(rt) == AlgsPresent(rt, "manifest-")
tagmanifest_files(rt) == AlgsPresent(rt, "tagmanifest-")

\* entry_path.lstrip("*")
RECURSIVE LStripStar(_)
LStripStar(text) ==
    IF text # <<>> /\ Head(text) = "*" THEN LStripStar(Tail(text)) ELSE text

SetEntry(entries, path, alg, hash) ==
    [q \in DOMAIN entries \cup {path} |->
        IF q # path THEN entries[q]
        ELSE IF path \in DOMAIN entries
             THEN [a \in DOMAIN entries[path] \cup {alg} |->
                      IF a = alg THEN hash ELSE entries[path][a]]
             ELSE [a \in {alg} |-> hash]]

\* the loop over the lines of one manifest file
RECURSIVE LoadLines(_, _, _, _)
LoadLines(lines, i, alg, entries) ==
    IF i > Len(lines) THEN entries
    ELSE LET entry_hash == lines[i][1]
             entry_path == _decode_filename(normpath(LStripStar(lines[i][2])))
         IN  LoadLines(lines, i + 1, alg, SetEntry(entries, entry_path, alg, entry_hash))

RECURSIVE LoadFiles(_, _, _, _)
LoadFiles(rt, algs, prefix, entries) ==
    IF algs = <<>> THEN entries
    ELSE LoadFiles(rt, Tail(algs), prefix,
                   LoadLines(rt[<<prefix, Head(algs), ".txt">>].lines, 1, Head(algs), entries))

\* _load_manifests: self.entries and self.algs are added to, never reset
_load_manifests(b, rt) ==
    LET withManifests == LoadFiles(rt, manifest_files(rt), "manifest-", b.entries)
        withTags == IF b.version = "0.97"
                    THEN LoadFiles(rt, tagmanifest_files(rt), "tagmanifest-", withManifests)
                    ELSE withManifests
        seen == Range(manifest_files(rt))
                \cup (IF b.version = "0.97" THEN Range(tagmanifest_files(rt)) ELSE {})
    IN  [b EXCEPT !.entries = withTags, !.algs = b.algs \cup seen]

TagText(tags, name) == IF tags[name][1] = "list" THEN <<"list">> ELSE tags[name][2]

\* Bag.__init__ and Bag._open: [error, bag]
OpenBag(rt) ==
    IF BAGIT_TXT \notin DOMAIN rt
    THEN [error |-> "BagError", bag |-> <<>>]
    ELSE IF ParsedTags(rt[BAGIT_TXT]).error
    THEN [error |-> "BagValidationError", bag |-> <<>>]
    ELSE LET tags == _load_tag_file(rt[BAGIT_TXT]) IN
    IF ~({"BagIt-Version", "Tag-File-Character-Encoding"} \subseteq DOMAIN tags)
    THEN [error |-> "BagError", bag |-> <<>>]
    ELSE LET version == TagText(tags, "BagIt-Version")
             encoding == TagText(tags, "Tag-File-Character-Encoding") IN
    IF version \notin {<<"0.93">>, <<"0.94">>, <<"0.95">>, <<"0.96">>, <<"0.97">>}
    THEN [error |-> "BagError", bag |-> <<>>]
    ELSE IF encoding \notin {<<"UTF-8">>, <<"utf-8">>}
    THEN [error |-> "BagValidationError", bag |-> <<>>]
    ELSE LET tag_file_name == IF version \in {<<"0.96">>, <<"0.97">>}
                              THEN BAG_INFO_TXT ELSE PACKAGE_INFO_TXT IN
    IF tag_file_name \in DOMAIN rt /\ ParsedTags(rt[tag_file_name]).error
    THEN [error |-> "BagValidationError", bag |-> <<>>]
    ELSE LET fresh == [open |-> TRUE, version |-> version[1],
                       tag_file_name |-> tag_file_name,
                       info |-> IF tag_file_name \in DOMAIN rt
                                THEN _load_tag_file(rt[tag_file_name]) ELSE EmptyMap,
                       entries |-> EmptyMap, algs |-> {}]
         IN  [error |-> "", bag |-> _load_manifests(fresh, rt)]

(***************************************************************************)
(* Validation.  Nothing outside the bag directory is modelled: a path that *)
(* leaves the bag names no file.  The outcome of a call is the record      *)
(* [ok, error, message, details]; details is the list BagValidationError   *)
(* carries.  The code fills it in the iteration order of sets and dicts;   *)
(* the model lists each group in sorted order.                             *)
(***************************************************************************)
IsPayloadKey(key) == StartsWith(key, <<"data", "/">>)

\* Bag.payload_files(): the paths data/<name> found by os.walk
payload_files(pl) == {DataPath(n) : n \in DOMAIN pl}

payload_entries(b) == {k \in DOMAIN b.entries : IsPayloadKey(k)}
tagfile_entries(b) == {k \in DOMAIN b.entries : ~IsPayloadKey(k)}

\* os.path.isfile / os.path.exists of a path joined to the bag directory
isfile(path, pl, rt) ==
    \/ path \in DOMAIN rt
    \/ IsPayloadKey(path) /\ FileName(path) \in DOMAIN pl

FileAt(path, pl, rt) == IF path \in DOMAIN rt THEN rt[path] ELSE Bytes(pl[FileName(path)])

missing_optional_tagfiles(b, pl, rt) == {k \in tagfile_entries(b) : ~isfile(k, pl, rt)}

\* A variant that walks the whole bag directory instead of data/: the files of
\* the root that no manifest lists count as files on the file system.
compare_whole_directory(b, pl, rt) ==
    LET files_on_fs ==
            payload_files(pl)
            \cup {f \in DOMAIN rt : f \notin DOMAIN b.entries /\ ~IsTagmanifestName(f)}
        files_in_manifest ==
            payload_entries(b)
            \cup (IF b.version = "0.97" THEN missing_optional_tagfiles(b, pl, rt) ELSE {})
    IN  [only_in_manifests |-> files_in_manifest \ files_on_fs,
         only_on_fs |-> files_on_fs \ files_in_manifest]

compare_manifests_with_fs(b, pl, rt) ==
    LET files_on_fs == payload_files(pl)
        files_in_manifest ==
            payload_entries(b)
            \cup (IF b.version = "0.97" THEN missing_optional_tagfiles(b, pl, rt) ELSE {})
    IN  [only_in_manifests |-> files_in_manifest \ files_on_fs,
         only_on_fs |-> files_on_fs \ files_in_manifest]

(***************************************************************************)
(* fetch.txt.  A line is a text; its fields are separated by white space.  *)
(***************************************************************************)
FETCH_TXT == <<"fetch.txt">>
FetchFile(lines) == [bom |-> FALSE, form |-> "fetch", lines |-> lines]

RECURSIVE FirstSpace(_, _)
FirstSpace(text, i) ==
    IF i > Len(text) THEN 0
    ELSE IF IsSpace(text[i]) THEN i
    ELSE FirstSpace(text, i + 1)

\* str.split(None, maxsplit)
RECURSIVE split(_, _)
split(text, maxsplit) ==
    LET t == LStrip(text)
        sp == FirstSpace(t, 1)
    IN  IF t = <<>> THEN <<>>
        ELSE IF maxsplit = 0 \/ sp = 0 THEN <<t>>
        ELSE <<SubSeq(t, 1, sp - 1)>> \o split(SubSeq(t, sp, Len(t)), maxsplit - 1)

\* Bag.fetch_entries: the triples of the lines up to the first line that has
\* fewer than three fields, where parts[2] raises IndexError
RECURSIVE FetchLines(_, _, _)
FetchLines(lines, i, out) ==
    IF i > Len(lines) THEN [error |-> "", entries |-> out]
    ELSE LET parts == split(Strip(lines[i]), 2) IN
         IF Len(parts) < 3 THEN [error |-> "IndexError", entries |-> out]
         ELSE FetchLines(lines, i + 1, Append(out, <<parts[1], parts[2], parts[3]>>))

fetch_entries(rt) ==
    IF FETCH_TXT \in DOMAIN rt
    THEN FetchLines(rt[FETCH_TXT].lines, 1, <<>>)
    ELSE [error |-> "", entries |-> <<>>]

\* Bag.files_to_be_fetched: "for f, size, path in self.fetch_entries(): yield f"
files_to_be_fetched(rt) ==
    [i \in 1..Len(fetch_entries(rt).entries) |-> fetch_entries(rt).entries[i][1]]

\* Bag.compare_fetch_with_fs
compare_fetch_with_fs(pl, rt) ==
    LET files_on_fs == payload_files(pl)
        files_in_fetch == Range(files_to_be_fetched(rt))
    IN  files_in_fetch \ files_on_fs

Outcome(ok, error, message, details) ==
    [ok |-> ok, error |-> error, message |-> message, details |-> details]

Passed == Outcome(TRUE, "", "", <<>>)

RECURSIVE TotalBytes(_, _)
TotalBytes(pl, names) ==
    IF names = {} THEN 0
    ELSE LET n == CHOOSE m \in names : TRUE
         IN  Size(pl[n]) + TotalBytes(pl, names \ {n})

\* Bag._validate_oxum
_validate_oxum(b, pl) ==
    IF "Payload-Oxum" \notin DOMAIN b.info THEN Passed
    ELSE LET tag == b.info["Payload-Oxum"]
             oxum == IF tag[1] = "list" THEN tag[2][1] ELSE tag[2]
             dot == IndexIn(".", oxum, 1) IN
    IF dot = 0 THEN Outcome(FALSE, "ValueError", "unpack", <<>>)
    ELSE LET byte_count == SubSeq(oxum, 1, dot - 1)
             file_count == SubSeq(oxum, dot + 1, Len(oxum))
             digits(t) == Len(t) = 1 /\ isdigit(t[1]) IN
    IF ~digits(byte_count) \/ ~digits(file_count)
    THEN Outcome(FALSE, "BagError", "Invalid oxum", <<>>)
    ELSE LET total_bytes == TotalBytes(pl, DOMAIN pl)
             total_files == Cardinality(payload_files(pl)) IN
    IF int(file_count[1]) # total_files \/ int(byte_count[1]) # total_bytes
    THEN Outcome(FALSE, "BagValidationError", "Oxum error", <<>>)
    ELSE Passed

FileMissing(path) == [type |-> "FileMissing", path |-> path]
UnexpectedFile(path) == [type |-> "UnexpectedFile", path |-> path]
ChecksumMismatch(path, algorithm, expected, found) ==
    [type |-> "ChecksumMismatch", path |-> path, algorithm |-> algorithm,
     expected |-> expected, found |-> found]

\* _calc_hashes and _calculate_file_hashes for one entry and one of its
\* algorithms: the digest of the file, or the text of the error for a file
\* that does not exist
_calc_hashes(rel_path, alg, pl, rt) ==
    IF ~isfile(rel_path, pl, rt)
    THEN [failed |-> TRUE, value |-> <<"does not exist", rel_path>>]
    ELSE [failed |-> FALSE, value |-> Digest(alg, FileAt(rel_path, pl, rt))]

\* A variant of the comparison loop that demands a digest of every available
\* algorithm for every entry: an algorithm the entry lacks counts as a
\* mismatch.
MismatchesOf_every_algorithm(b, rel_path, available_hashers, pl, rt) ==
    LET hashes == b.entries[rel_path]
        algs == SelectSeq(checksum_algos, LAMBDA a : a \in available_hashers)
        stored(a) == IF a \in DOMAIN hashes THEN hashes[a] ELSE <<"not listed">>
        wrong == SelectSeq(algs, LAMBDA a :
                     LET f == _calc_hashes(rel_path, a, pl, rt)
                     IN  a \notin DOMAIN hashes \/ f.failed \/ hashes[a] # f.value)
    IN  [i \in 1..Len(wrong) |->
            ChecksumMismatch(rel_path, wrong[i], stored(wrong[i]),
                             _calc_hashes(rel_path, wrong[i], pl, rt).value)]

\* the comparison loop of _validate_entries for one entry: an error text never
\* equals a stored digest
MismatchesOf(b, rel_path, available_hashers, pl, rt) ==
    LET hashes == b.entries[rel_path]
        algs == SelectSeq(checksum_algos,
                          LAMBDA a : a \in DOMAIN hashes /\ a \in available_hashers)
        wrong == SelectSeq(algs, LAMBDA a :
                     LET f == _calc_hashes(rel_path, a, pl, rt)
                     IN  f.failed \/ hashes[a] # f.value)
    IN  [i \in 1..Len(wrong) |->
            ChecksumMismatch(rel_path, wrong[i], hashes[wrong[i]],
                             _calc_hashes(rel_path, wrong[i], pl, rt).value)]

RECURSIVE Mismatches(_, _, _, _, _)
Mismatches(b, paths, available_hashers, pl, rt) ==
    IF paths = <<>> THEN <<>>
    ELSE MismatchesOf(b, Head(paths), available_hashers, pl, rt)
         \o Mismatches(b, Tail(paths), available_hashers, pl, rt)

\* A variant that raises at the first error instead of collecting them all.
_validate_entries_first_error(b, pl, rt, processes) ==
    LET cmp == compare_manifests_with_fs(b, pl, rt)
        missing == SortStrings(cmp.only_in_manifests)
        extra == SortStrings(cmp.only_on_fs)
        available_hashers == {a \in b.algs : a \in Range(checksum_algos)}
        errors == [i \in 1..Len(missing) |-> FileMissing(missing[i])]
                  \o [i \in 1..Len(extra) |-> UnexpectedFile(extra[i])]
                  \o Mismatches(b, SortStrings(DOMAIN b.entries), available_hashers, pl, rt)
    IN  IF available_hashers = {}
        THEN Outcome(FALSE, "RuntimeError", "no supported hash algorithm", <<>>)
        ELSE IF errors # <<>>
        THEN Outcome(FALSE, "BagValidationError", "invalid bag", <<errors[1]>>)
        ELSE Passed

\* the orders in which the workers of a pool may finish n tasks: the order
\* the tasks were handed out in, or the opposite one
CompletionOrders(n) == {[k \in 1..n |-> k], [k \in 1..n |-> n + 1 - k]}

RECURSIVE Collect(_, _, _, _)
Collect(out, tasks, order, k) ==
    IF k > Len(order) THEN out
    ELSE Collect([out EXCEPT ![order[k]] = tasks[order[k]]], tasks, order, k + 1)

\* A variant of the pool that hands back what the first worker to finish did
\* and nothing else.
pool_map_first_done(tasks, order) ==
    IF tasks = <<>> THEN <<>> ELSE <<tasks[order[1]]>>

\* multiprocessing.Pool.map: each result is stored at the index of its task
\* when its worker finishes
pool_map(tasks, order) ==
    Collect([i \in 1..Len(tasks) |-> <<>>], tasks, order, 1)

\* what pool.map may return for these tasks
PoolResults(tasks) == {pool_map(tasks, order) : order \in CompletionOrders(Len(tasks))}

\* hash_results: map(_calc_hashes, args) or pool.map(_calc_hashes, args); a
\* result is named by the rel_path of its task
hash_results(args, processes) ==
    IF processes = 1 THEN args
    ELSE CHOOSE r \in PoolResults(args) : TRUE

\* Bag._validate_entries
_validate_entries(b, pl, rt, processes) ==
    LET cmp == compare_manifests_with_fs(b, pl, rt)
        missing == SortStrings(cmp.only_in_manifests)
        extra == SortStrings(cmp.only_on_fs)
        available_hashers == {a \in b.algs : a \in Range(checksum_algos)}
        errors == [i \in 1..Len(missing) |-> FileMissing(missing[i])]
                  \o [i \in 1..Len(extra) |-> UnexpectedFile(extra[i])]
                  \o Mismatches(b, hash_results(SortStrings(DOMAIN b.entries), processes),
                                available_hashers, pl, rt)
    IN  IF available_hashers = {}
        THEN Outcome(FALSE, "RuntimeError", "no supported hash algorithm", <<>>)
        ELSE IF errors # <<>>
        THEN Outcome(FALSE, "BagValidationError", "invalid bag", errors)
        ELSE Passed

\* Bag._validate_contents
_validate_contents(b, pl, rt, processes, fast) ==
    IF fast /\ "Payload-Oxum" \notin DOMAIN b.info
    THEN Outcome(FALSE, "BagValidationError", "no Payload-Oxum", <<>>)
    ELSE LET oxum == _validate_oxum(b, pl) IN
         IF ~oxum.ok THEN oxum
         ELSE IF ~fast THEN _validate_entries(b, pl, rt, processes)
         ELSE Passed

\* Bag._validate_structure
_validate_structure(dirs, rt) ==
    IF "data" \notin dirs
    THEN Outcome(FALSE, "BagValidationError", "Missing data directory", <<>>)
    ELSE IF manifest_files(rt) = <<>>
    THEN Outcome(FALSE, "BagValidationError", "Missing manifest file", <<>>)
    ELSE IF BAGIT_TXT \notin DOMAIN rt
    THEN Outcome(FALSE, "BagValidationError", "Missing bagit.txt", <<>>)
    ELSE Passed

\* A variant of validate that does not look for a byte-order mark.
_validate_bagittxt_skipped(rt) == Passed

\* Bag._validate_bagittxt
_validate_bagittxt(rt) ==
    IF rt[BAGIT_TXT].bom
    THEN Outcome(FALSE, "BagValidationError", "byte-order mark", <<>>)
    ELSE Passed

\* Bag.validate
validate(b, pl, rt, dirs, processes, fast) ==
    LET structure == _validate_structure(dirs, rt) IN
    IF ~structure.ok THEN structure
    ELSE LET bagittxt == _validate_bagittxt(rt) IN
    IF ~bagittxt.ok THEN bagittxt
    ELSE _validate_contents(b, pl, rt, processes, fast)

\* Bag.is_valid: BagError and its subclass are caught, anything else is raised
is_valid(b, pl, rt, dirs, fast) ==
    LET v == validate(b, pl, rt, dirs, 1, fast)
    IN  IF v.ok THEN [raised |-> "", value |-> TRUE]
        ELSE IF v.error \in {"BagError", "BagValidationError"}
        THEN [raised |-> "", value |-> FALSE]
        ELSE [raised |-> v.error, value |-> FALSE]

(***************************************************************************)
(* Two calls of make_bag in two threads of one process.  The directory     *)
(* tree is a set of directories and a map of files, both keyed by absolute *)
(* path (a sequence of names); the current working directory belongs to    *)
(* the process.  A file content is [kind, n, names]: the file's own name   *)
(* for a payload file, the paths listed for a manifest, the count of       *)
(* Payload-Oxum for bag-info.txt, the files and their contents for a tag   *)
(* manifest.                                                               *)
(***************************************************************************)
Callers == 1..2

HOME == <<"home">>
bag_dir == [i \in Callers |-> IF i = 1 THEN <<"A">> ELSE <<"B">>]
TempName == [i \in Callers |-> IF i = 1 THEN "tmp1" ELSE "tmp2"]

\* the files of the two directories before the calls, by path below the
\* directory: the first directory has a subdirectory named data
OwnFiles == [i \in Callers |-> IF i = 1 THEN {<<"a1">>, <<"data", "a2">>} ELSE {<<"b1">>}]
OwnDirs == [i \in Callers |-> IF i = 1 THEN {<<"data">>} ELSE {}]

PayloadContent(name) == [kind |-> "payload", n |-> 0, names |-> {<<name>>}]
ManifestContent(paths) == [kind |-> "manifest", n |-> 0, names |-> paths]
BagitContent == [kind |-> "bagit", n |-> 0, names |-> {}]
BagInfoContent(count) == [kind |-> "bag-info", n |-> count, names |-> {}]
TagmanifestContent(pairs) == [kind |-> "tagmanifest", n |-> 0, names |-> pairs]

IsPrefix(p, q) == Len(p) <= Len(q) /\ SubSeq(q, 1, Len(p)) = p
Parent(p) == SubSeq(p, 1, Len(p) - 1)
Below(p, q) == SubSeq(q, Len(p) + 1, Len(q))

Exists(fs, p) == p \in fs.dirs \/ p \in DOMAIN fs.files

\* os.listdir(d)
ListDir(fs, d) ==
    {p[Len(p)] : p \in {q \in fs.dirs \cup DOMAIN fs.files : Len(q) = Len(d) + 1 /\ IsPrefix(d, q)}}

\* os.rename(src, dst) on one file system: the tree afterwards, or the error
rename(fs, src, dst) ==
    LET Move(p) == IF IsPrefix(src, p) THEN dst \o Below(src, p) ELSE p
        Back(q) == IF IsPrefix(dst, q) THEN src \o Below(dst, q) ELSE q
        keptDirs == fs.dirs \ {dst}
        keptFiles == DOMAIN fs.files \ {dst}
    IN  IF \/ ~Exists(fs, src)
           \/ Parent(dst) \notin fs.dirs
           \/ (src # dst /\ IsPrefix(src, dst))
           \/ (src \in fs.dirs /\ dst \in DOMAIN fs.files)
           \/ (src \in fs.dirs /\ dst \in fs.dirs /\ ListDir(fs, dst) # {})
           \/ (src \in DOMAIN fs.files /\ dst \in fs.dirs)
        THEN [error |-> TRUE, fs |-> fs]
        ELSE IF src = dst THEN [error |-> FALSE, fs |-> fs]
        ELSE [error |-> FALSE,
              fs |-> [dirs |-> {Move(p) : p \in keptDirs},
                      files |-> [q \in {Move(p) : p \in keptFiles} |-> fs.files[Back(q)]]]]

\* open(path, 'w') and write: the tree afterwards, or the error
write(fs, path, content) ==
    IF Parent(path) \notin fs.dirs \/ path \in fs.dirs
    THEN [error |-> TRUE, fs |-> fs]
    ELSE [error |-> FALSE,
          fs |-> [fs EXCEPT !.files =
                     [q \in DOMAIN fs.files \cup {path} |->
                         IF q = path THEN content ELSE fs.files[q]]]]

\* _walk(data_dir): the files below d, relative to its parent
WalkFiles(fs, d) == {Below(Parent(d), q) : q \in {r \in DOMAIN fs.files : IsPrefix(d, r)}}

\* before either call: the working directory is neither bag directory
ThreadsStart ==
    [cwd |-> HOME,
     fs |-> [dirs |-> {HOME, bag_dir[1], bag_dir[2]}
                      \cup UNION {{bag_dir[i] \o d : d \in OwnDirs[i]} : i \in Callers},
             files |-> [q \in UNION {{bag_dir[i] \o f : f \in OwnFiles[i]} : i \in Callers}
                           |-> PayloadContent(q[Len(q)])]],
     t |-> [i \in Callers |->
              [pc |-> "start", old_dir |-> <<>>, temp_data |-> <<>>, todo |-> {},
               Oxum |-> 0, failed |-> FALSE, wrote |-> {}]]]

(***************************************************************************)
(* A pool of worker processes serving one call: pool.map in                *)
(* Bag._validate_entries ("validate") or in _make_manifest ("manifest").   *)
(***************************************************************************)
MaxTasks == 3

PoolTasks == 1..MaxTasks
Workers == 1..2
PoolOps == {"validate", "manifest"}

\* no pool: no call with processes > 1 is running
PoolIdle ==
    [op |-> "none", parent |-> "idle", pending |-> {}, running |-> [w \in Workers |-> 0],
     alive |-> {}, done |-> {}, interrupted |-> FALSE, late |-> 0]

(***************************************************************************)
(* Several Bag objects in one process, for the two Bag classes of the      *)
(* repository: bagit.py's, whose __init__ gives each object its own        *)
(* entries and algs, and bagit/core.py's, where entries and algs are       *)
(* attributes of the class that load_manifests adds to in place.           *)
(***************************************************************************)
MaxBags == 3

Implementations == {"bagit.py", "core.py"}
BagDirs == {"A", "B", "C"}

\* the payload manifests of the three bags: algorithm -> lines <<hash, path>>
ManifestsOf(d) ==
    CASE d = "A" -> [alg \in {"md5"} |-> << <<"h1", <<"data", "/", "a">> >> >>]
      [] d = "B" -> [alg \in {"sha1"} |-> << <<"h2", <<"data", "/", "b">> >> >>]
      [] d = "C" -> [alg \in {"md5"} |-> << <<"h3", <<"data", "/", "a">> >>,
                                            <<"h4", <<"data", "/", "d">> >> >>]

RECURSIVE ReadLines(_, _, _, _)
ReadLines(lines, i, alg, entries) ==
    IF i > Len(lines) THEN entries
    ELSE ReadLines(lines, i + 1, alg, SetEntry(entries, lines[i][2], alg, lines[i][1]))

\* load_manifests / _load_manifests on the manifests of d, starting from the
\* entries and algs the attributes hold: [entries, algs]
RECURSIVE ReadManifests(_, _, _, _)
ReadManifests(d, algs_left, entries, algs) ==
    IF algs_left = <<>> THEN [entries |-> entries, algs |-> algs]
    ELSE ReadManifests(d, Tail(algs_left),
                       ReadLines(ManifestsOf(d)[Head(algs_left)], 1, Head(algs_left), entries),
                       Append(algs, Head(algs_left)))

ManifestAlgs(d) == SelectSeq(checksum_algos, LAMBDA a : a \in DOMAIN ManifestsOf(d))

\* no Bag object yet; the attributes of core.py's class as the class
\* statement leaves them
NothingLoaded ==
    [impl |-> "none", class |-> [entries |-> EmptyMap, algs |-> <<>>], objs |-> <<>>]

\* what the attribute lookup obj.entries / obj.algs finds
EntriesOf(ld, k) == IF ld.objs[k].own THEN ld.objs[k].entries ELSE ld.class.entries
AlgsOf(ld, k) == IF ld.objs[k].own THEN ld.objs[k].algs ELSE ld.class.algs

(***************************************************************************)
(* State.                                                                  *)
(***************************************************************************)
VARIABLES
    payload,    \* the files of the directory before make_bag, of data/ after it:
                \* file name -> content
    root,       \* the regular files of the bag root after make_bag: name -> content
    rootdirs,   \* the directories of the bag root other than data
    made,       \* make_bag has converted the directory
    bag,        \* the Bag object the caller holds
    result,     \* what a validate() call returned or raised, until the caller has
                \* looked at it
    lastOp,     \* the latest operation that changed the directory or the Bag object
    manifested, \* the payload as it was when the manifests were last generated
    edits,      \* number of changes made to the directory by hand
    threads,    \* two make_bag calls running in two threads: the working directory
                \* of the process, their directory tree, each call's position
    pool,       \* a multiprocessing.Pool at work for one call, and the parent's
                \* position in that call
    loaded      \* Bag objects opened one after the other on several bag
                \* directories, and the attributes of their class

vars == <<payload, root, rootdirs, made, bag, result, lastOp, manifested, edits, threads,
          pool, loaded>>

NoBag == [open |-> FALSE, version |-> "", tag_file_name |-> <<>>,
          info |-> EmptyMap, entries |-> EmptyMap, algs |-> {}]

NoResult == [op |-> "none", fast |-> FALSE, ok |-> FALSE, error |-> "",
             message |-> "", details |-> <<>>]

Init ==
    /\ payload \in InitialDirs
    /\ root = EmptyMap
    /\ rootdirs = {}
    /\ made = FALSE
    /\ bag = NoBag
    /\ result = NoResult
    /\ lastOp = "init"
    /\ manifested = EmptyMap
    /\ edits = 0
    /\ threads = ThreadsStart
    /\ pool = PoolIdle
    /\ loaded = NothingLoaded

(***************************************************************************)
(* make_bag(bag_dir, bag_info, processes, checksum)                        *)
(***************************************************************************)
BagitTxt ==
    TagFile(FALSE, <<"BagIt-Version", ":", " ", "0.97", "LF",
                     "Tag-File-Character-Encoding", ":", " ", "UTF-8", "LF">>)

\* the values of make_bag's bag_info argument
BagInfoInputs == {EmptyMap}

SetTag(info, name, value) ==
    [k \in DOMAIN info \cup {name} |-> IF k = name THEN value ELSE info[k]]

DefaultTag(info, name, value) == IF name \in DOMAIN info THEN info ELSE SetTag(info, name, value)

\* the files make_bag leaves in the bag root
MakeBagRoot(pl, bag_info, processes, checksum, reversed) ==
    LET algs == IF checksum = <<>> THEN <<"md5">> ELSE checksum
        withManifests == WriteManifests(EmptyMap, pl, processes, algs)
        Oxum == _make_manifest(pl, processes, algs[Len(algs)]).oxum
        withBagit == WriteFile(withManifests, BAGIT_TXT, BagitTxt)
        info == SetTag(DefaultTag(DefaultTag(bag_info, "Bagging-Date", Str(<<"today">>)),
                                  "Bag-Software-Agent", Str(<<"bagit.py">>)),
                       "Payload-Oxum", Str(Oxum))
        withInfo == WriteFile(withBagit, BAG_INFO_TXT, _make_tag_file(info))
    IN  WriteTagmanifests(withInfo, algs, reversed)

\* The children of bag_dir are renamed into a temporary directory, which is
\* renamed to data; the manifests, bagit.txt, bag-info.txt and the tagmanifests
\* are written; the result is Bag(bag_dir).
MakeBag(bag_info, processes, checksum, reversed) ==
    /\ ~made
    /\ result.op = "none"
    /\ LET rt == MakeBagRoot(payload, bag_info, processes, checksum, reversed)
       IN  /\ root' = rt
           /\ bag' = OpenBag(rt).bag
    /\ rootdirs' = {"data"}
    /\ made' = TRUE
    /\ manifested' = payload
    /\ lastOp' = "make_bag"
    /\ UNCHANGED <<payload, result, edits, threads, pool, loaded>>

(***************************************************************************)
(* Bag(path): the caller opens the bag again and keeps the new object.     *)
(***************************************************************************)
Load ==
    /\ made
    /\ result.op = "none"
    /\ OpenBag(root).error = ""
    /\ bag' = OpenBag(root).bag
    /\ lastOp' = "load"
    /\ UNCHANGED <<payload, root, rootdirs, made, result, manifested, edits, threads, pool, loaded>>

(***************************************************************************)
(* Bag.save(processes, manifests)                                          *)
(***************************************************************************)
\* the algorithms of self.algs, each once
AlgList(b) == SelectSeq(checksum_algos, LAMBDA a : a \in b.algs)

\* A variant of save that never updates Payload-Oxum.
SaveInfo_oxum_kept(b, pl, processes, manifests) == b.info

\* self.info after the manifests are regenerated: Payload-Oxum is set when
\* some manifest was written
SaveInfo(b, pl, processes, manifests) ==
    IF manifests /\ AlgList(b) # <<>>
    THEN SetTag(b.info, "Payload-Oxum",
                Str(_make_manifest(pl, processes, AlgList(b)[Len(AlgList(b))]).oxum))
    ELSE b.info

\* A variant of save that regenerates the manifests whatever manifests says.
SaveRoot_always_regenerates(b, pl, rt, processes, manifests, reversed) ==
    LET withManifests == WriteManifests(rt, pl, processes, AlgList(b))
        withInfo == WriteFile(withManifests, b.tag_file_name,
                              _make_tag_file(SaveInfo(b, pl, processes, manifests)))
    IN  WriteTagmanifests(withInfo, AlgList(b), reversed)

\* the files of the bag root after save
SaveRoot(b, pl, rt, processes, manifests, reversed) ==
    LET withManifests == IF manifests THEN WriteManifests(rt, pl, processes, AlgList(b))
                         ELSE rt
        withInfo == WriteFile(withManifests, b.tag_file_name,
                              _make_tag_file(SaveInfo(b, pl, processes, manifests)))
    IN  WriteTagmanifests(withInfo, AlgList(b), reversed)

Save(processes, manifests, reversed) ==
    /\ bag.open
    /\ result.op = "none"
    /\ LET rt == SaveRoot(bag, payload, root, processes, manifests, reversed)
           info == SaveInfo(bag, payload, processes, manifests)
       IN  /\ root' = rt
           /\ bag' = _load_manifests([bag EXCEPT !.info = info], rt)
    /\ manifested' = IF manifests /\ AlgList(bag) # <<>> THEN payload ELSE manifested
    /\ lastOp' = IF manifests THEN "save_manifests" ELSE "save"
    /\ UNCHANGED <<payload, rootdirs, made, result, edits, threads, pool, loaded>>

(***************************************************************************)
(* Bag.validate(processes, fast)                                           *)
(***************************************************************************)
Validate(processes, fast) ==
    /\ bag.open
    /\ result.op = "none"
    /\ LET v == validate(bag, payload, root, rootdirs, processes, fast)
       IN  result' = [op |-> "validate", fast |-> fast, ok |-> v.ok, error |-> v.error,
                      message |-> v.message, details |-> v.details]
    /\ UNCHANGED <<payload, root, rootdirs, made, bag, lastOp, manifested, edits,
                   threads, pool, loaded>>

\* the caller has looked at the outcome and goes on
Handled ==
    /\ result.op # "none"
    /\ result' = NoResult
    /\ UNCHANGED <<payload, root, rootdirs, made, bag, lastOp, manifested, edits,
                   threads, pool, loaded>>

(***************************************************************************)
(* Changes made to the bag directory by hand, between the calls.           *)
(***************************************************************************)
Edit(op) ==
    /\ made
    /\ result.op = "none"
    /\ edits < MaxEdits
    /\ edits' = edits + 1
    /\ lastOp' = op
    /\ UNCHANGED <<made, bag, result, manifested, threads, pool, loaded>>

AddPayloadFile(name, content) ==
    /\ Edit("add_payload")
    /\ name \notin DOMAIN payload
    /\ Cardinality(DOMAIN payload) < MaxFiles
    /\ payload' = [n \in DOMAIN payload \cup {name} |->
                       IF n = name THEN content ELSE payload[n]]
    /\ UNCHANGED <<root, rootdirs>>

DeletePayloadFile(name) ==
    /\ Edit("delete_payload")
    /\ name \in DOMAIN payload
    /\ payload' = [n \in DOMAIN payload \ {name} |-> payload[n]]
    /\ UNCHANGED <<root, rootdirs>>

ChangePayloadFile(name, content) ==
    /\ Edit("change_payload")
    /\ name \in DOMAIN payload
    /\ content # payload[name]
    /\ payload' = [payload EXCEPT ![name] = content]
    /\ UNCHANGED <<root, rootdirs>>

AddRootFile ==
    /\ Edit("add_root_file")
    /\ IGNOREFILE \notin DOMAIN root
    /\ root' = WriteFile(root, IGNOREFILE, Bytes("x"))
    /\ UNCHANGED <<payload, rootdirs>>

AddRootDir ==
    /\ Edit("add_root_dir")
    /\ "IGNOREDIR" \notin rootdirs
    /\ rootdirs' = rootdirs \cup {"IGNOREDIR"}
    /\ UNCHANGED <<payload, root>>

RemoveBagInfo ==
    /\ Edit("remove_bag_info")
    /\ BAG_INFO_TXT \in DOMAIN root
    /\ root' = [f \in DOMAIN root \ {BAG_INFO_TXT} |-> root[f]]
    /\ UNCHANGED <<payload, rootdirs>>

\* test.py, test_unsafe_directory_entries_raise_error: a manifest is
\* overwritten with one line naming a path outside the bag
TamperManifest(alg, path) ==
    /\ Edit("tamper_manifest")
    /\ ManifestName(alg) \in DOMAIN root
    /\ root' = WriteFile(root, ManifestName(alg),
                        ManifestFile(<< <<Digest(alg, Bytes("garbage")), path>> >>))
    /\ UNCHANGED <<payload, rootdirs>>

Next ==
    \/ \E bag_info \in BagInfoInputs, processes \in ProcessInputs,
          checksum \in ChecksumInputs, reversed \in BOOLEAN :
          MakeBag(bag_info, processes, checksum, reversed)
    \/ Load
    \/ \E processes \in ProcessInputs, manifests \in BOOLEAN, reversed \in BOOLEAN :
          Save(processes, manifests, reversed)
    \/ \E processes \in ProcessInputs, fast \in BOOLEAN : Validate(processes, fast)
    \/ Handled
    \/ \E name \in PayloadNames, content \in Contents : AddPayloadFile(name, content)
    \/ \E name \in PayloadNames : DeletePayloadFile(name)
    \/ \E name \in PayloadNames, content \in Contents : ChangePayloadFile(name, content)
    \/ AddRootFile
    \/ AddRootDir
    \/ RemoveBagInfo
    \/ \E path \in UnsafePaths : TamperManifest("md5", path)

Spec == Init /\ [][Next]_vars

(***************************************************************************)
(* make_bag with its pre-checks and with a failure part of the way.  The   *)
(* subdirectories of the tree are not in payload; an entry that lacks a    *)
(* permission is given by its depth below bag_dir (0 is bag_dir itself),   *)
(* its kind and the access it lacks.                                       *)
(***************************************************************************)
MaxDepth == 2

Denials ==
    {x \in [depth : 0..MaxDepth, kind : {"dir", "file"}, access : {"r", "w"}] :
        x.depth = 0 => x.kind = "dir"}

\* the permissions of the tree at the call: nothing denied, or one entry
AccessInputs == {{}} \cup {{x} : x \in Denials}

\* _can_bag(test_dir): os.listdir, the children of bag_dir that are not writable
_can_bag(denied) == {x \in denied : x.depth = 1 /\ x.access = "w"}

\* _can_read(test_dir): os.walk, the entries below bag_dir that are not readable
_can_read(denied) == {x \in denied : x.depth >= 1 /\ x.access = "r"}

\* the exception make_bag raises before it has changed anything, "" if none:
\* isdir, then listdir of bag_dir inside _can_bag, the two pre-checks, mkdtemp
MakeBagRefusal(exists, denied) ==
    IF ~exists THEN "RuntimeError"
    ELSE IF \E x \in denied : x.depth = 0 /\ x.access = "r" THEN "OSError"
    ELSE IF _can_bag(denied) # {} THEN "BagError"
    ELSE IF _can_read(denied) # {} THEN "BagError"
    ELSE IF \E x \in denied : x.depth = 0 /\ x.access = "w" THEN "OSError"
    ELSE ""

MakeBagChecked(exists, denied, bag_info, processes, checksum, reversed) ==
    IF MakeBagRefusal(exists, denied) = ""
    THEN MakeBag(bag_info, processes, checksum, reversed)
    ELSE /\ ~made
         /\ result.op = "none"
         /\ result' = [NoResult EXCEPT !.op = "make_bag",
                                       !.error = MakeBagRefusal(exists, denied)]
         /\ lastOp' = "make_bag_refused"
         /\ UNCHANGED <<payload, root, rootdirs, made, bag, manifested, edits, threads, pool, loaded>>

\* the steps of make_bag after the pre-checks, in the order of the code
FailSteps == {"move", "manifest", "bagit", "bag_info", "tagmanifest"}

\* the files of the bag root when make_bag raises during step, the k-th pass of
\* its loop for the two loops over checksum: what the earlier steps wrote
MakeBagStopped(pl, bag_info, processes, checksum, reversed, step, k) ==
    LET algs == IF checksum = <<>> THEN <<"md5">> ELSE checksum
        withManifests == WriteManifests(EmptyMap, pl, processes, algs)
        Oxum == _make_manifest(pl, processes, algs[Len(algs)]).oxum
        withBagit == WriteFile(withManifests, BAGIT_TXT, BagitTxt)
        info == SetTag(DefaultTag(DefaultTag(bag_info, "Bagging-Date", Str(<<"today">>)),
                                  "Bag-Software-Agent", Str(<<"bagit.py">>)),
                       "Payload-Oxum", Str(Oxum))
        withInfo == WriteFile(withBagit, BAG_INFO_TXT, _make_tag_file(info))
    IN  CASE step = "move" -> EmptyMap
          [] step = "manifest" ->
                 WriteManifests(EmptyMap, pl, processes, SubSeq(algs, 1, k - 1))
          [] step = "bagit" -> withManifests
          [] step = "bag_info" -> withBagit
          [] step = "tagmanifest" ->
                 WriteTagmanifests(withInfo, SubSeq(algs, 1, k - 1), reversed)

\* make_bag raises part of the way: the exception is logged and raised again,
\* nothing is undone, no Bag is returned
MakeBagFails(bag_info, processes, checksum, reversed, step, k) ==
    /\ ~made
    /\ result.op = "none"
    /\ k \in 1..(IF checksum = <<>> THEN 1 ELSE Len(checksum))
    /\ step \notin {"manifest", "tagmanifest"} => k = 1
    /\ root' = MakeBagStopped(payload, bag_info, processes, checksum, reversed, step, k)
    /\ rootdirs' = IF step = "move" THEN {"tmp"} ELSE {"data"}
    /\ made' = TRUE
    /\ manifested' = payload
    /\ lastOp' = "make_bag_failed"
    /\ UNCHANGED <<payload, bag, result, edits, threads, pool, loaded>>

NextMake ==
    \/ \E exists \in BOOLEAN, denied \in AccessInputs, processes \in ProcessInputs,
          checksum \in ChecksumInputs, reversed \in BOOLEAN :
          MakeBagChecked(exists, denied, EmptyMap, processes, checksum, reversed)
    \/ \E processes \in ProcessInputs, checksum \in ChecksumInputs, reversed \in BOOLEAN,
          step \in FailSteps, k \in 1..2 :
          MakeBagFails(EmptyMap, processes, checksum, reversed, step, k)
    \/ Load
    \/ \E processes \in ProcessInputs, fast \in BOOLEAN : Validate(processes, fast)
    \/ Handled

SpecMake == Init /\ [][NextMake]_vars

(***************************************************************************)
(* The tag files of a bag: bag.info changed by the caller and saved,       *)
(* bagit.txt and fetch.txt rewritten by hand, Bag.is_valid.                *)
(***************************************************************************)
\* values the caller stores in bag.info: a string, a string with a leading
\* blank, a string with a line feed (test.py, test_make_bag_with_newline), lists
\* of one and of two strings, a list whose element holds a line feed followed by
\* the text of a tag line, and two malformed Payload-Oxum strings
InfoValueInputs ==
    {Str(<<"x">>),
     Str(<<" ", "x">>),
     Str(<<"x", "LF", "y">>),
     <<"list", << <<"x">> >> >>,
     <<"list", << <<"x">>, <<"y">> >> >>,
     <<"list", << <<"x", "LF", "External-Identifier", ":", " ", "y">> >> >>,
     Str(<<"12">>),
     Str(<<"x", ".", "1">>)}

InfoNameInputs == {"Contact-Name", "Payload-Oxum"}

\* bag.info[name] = value (test.py, test_save_baginfo)
SetInfo(name, value) ==
    /\ bag.open
    /\ result.op = "none"
    /\ edits < MaxEdits
    /\ edits' = edits + 1
    /\ bag' = [bag EXCEPT !.info = SetTag(bag.info, name, value)]
    /\ lastOp' = "set_info"
    /\ UNCHANGED <<payload, root, rootdirs, made, result, manifested, threads, pool, loaded>>

\* test.py, test_bom_in_bagit_txt: bagit.txt rewritten with a leading BOM
AddBom ==
    /\ Edit("add_bom")
    /\ BAGIT_TXT \in DOMAIN root
    /\ ~root[BAGIT_TXT].bom
    /\ root' = WriteFile(root, BAGIT_TXT, [root[BAGIT_TXT] EXCEPT !.bom = TRUE])
    /\ UNCHANGED <<payload, rootdirs>>

\* the fetch.txt files written by hand (test.py, test_fetch_loader): one line,
\* two lines, a line of two fields
FetchInputs ==
    {FetchFile(<< <<"http://h/a", " ", "1", " ", "data", "/", "a">> >>),
     FetchFile(<< <<"http://h/a", " ", "-", " ", "data", "/", "a">>,
                  <<"http://h/b", " ", "-", " ", "data", "/", "b">> >>),
     FetchFile(<< <<"http://h/b", " ", "data", "/", "b">> >>)}

WriteFetchTxt(file) ==
    /\ Edit("write_fetch")
    /\ root' = WriteFile(root, FETCH_TXT, file)
    /\ UNCHANGED <<payload, rootdirs>>

\* Bag.is_valid(fast): result.error is the exception that escaped, if any
IsValid(fast) ==
    /\ bag.open
    /\ result.op = "none"
    /\ LET v == is_valid(bag, payload, root, rootdirs, fast)
       IN  result' = [op |-> "is_valid", fast |-> fast, ok |-> v.value,
                      error |-> v.raised, message |-> "", details |-> <<>>]
    /\ UNCHANGED <<payload, root, rootdirs, made, bag, lastOp, manifested, edits,
                   threads, pool, loaded>>

NextTags ==
    \/ \E checksum \in ChecksumInputs : MakeBag(EmptyMap, 1, checksum, FALSE)
    \/ Load
    \/ \E name \in InfoNameInputs, value \in InfoValueInputs : SetInfo(name, value)
    \/ \E manifests \in BOOLEAN : Save(1, manifests, FALSE)
    \/ \E fast \in BOOLEAN : Validate(1, fast)
    \/ \E fast \in BOOLEAN : IsValid(fast)
    \/ Handled
    \/ AddBom
    \/ \E file \in FetchInputs : WriteFetchTxt(file)

SpecTags == Init /\ [][NextTags]_vars

(***************************************************************************)
(* make_bag in two threads, one step per system call (or per helper that   *)
(* works on one file).  os.chdir changes the working directory of the      *)
(* process; relative paths are resolved when the call is made.  Each call  *)
(* has the default checksum, md5.                                          *)
(***************************************************************************)
mainVars == <<payload, root, rootdirs, made, bag, result, lastOp, manifested, edits>>

At(i, pc) == threads.t[i].pc = pc

\* a call goes on: its fields, the tree and the working directory afterwards
Goes(i, t2, fs2, cwd2) ==
    /\ threads' = [threads EXCEPT !.t[i] = t2, !.fs = fs2, !.cwd = cwd2]
    /\ UNCHANGED <<mainVars, pool, loaded>>

\* an exception inside the try block: on to the finally clause
Raise(t) == [t EXCEPT !.pc = "finally", !.failed = TRUE]

\* old_dir = os.path.abspath(os.path.curdir)
make_bag_old_dir(i) ==
    /\ At(i, "start")
    /\ Goes(i, [threads.t[i] EXCEPT !.pc = "chdir", !.old_dir = threads.cwd],
            threads.fs, threads.cwd)

\* os.chdir(bag_dir); _can_bag and _can_read find nothing
make_bag_chdir(i) ==
    /\ At(i, "chdir")
    /\ Goes(i, [threads.t[i] EXCEPT !.pc = "mkdtemp"], threads.fs, bag_dir[i])

\* cwd = os.getcwd(); temp_data = tempfile.mkdtemp(dir=cwd)
make_bag_mkdtemp(i) ==
    /\ At(i, "mkdtemp")
    /\ LET temp_data == threads.cwd \o <<TempName[i]>>
       IN  Goes(i, [threads.t[i] EXCEPT !.pc = "listdir", !.temp_data = temp_data,
                                        !.wrote = @ \cup {threads.cwd}],
                [threads.fs EXCEPT !.dirs = @ \cup {temp_data}], threads.cwd)

\* os.listdir('.')
make_bag_listdir(i) ==
    /\ At(i, "listdir")
    /\ Goes(i, [threads.t[i] EXCEPT !.pc = "move", !.todo = ListDir(threads.fs, threads.cwd)],
            threads.fs, threads.cwd)

\* A variant of the loop that ends after the first entry it has moved.
make_bag_move_once(i, f) ==
    /\ At(i, "move")
    /\ f \in threads.t[i].todo
    /\ LET t == [threads.t[i] EXCEPT !.todo = {}]
           src == threads.cwd \o <<f>>
           r == rename(threads.fs, src, t.temp_data \o <<f>>)
       IN  IF src = t.temp_data
           THEN Goes(i, [t EXCEPT !.todo = threads.t[i].todo \ {f}], threads.fs, threads.cwd)
           ELSE IF r.error THEN Goes(i, Raise(t), threads.fs, threads.cwd)
           ELSE Goes(i, [t EXCEPT !.wrote = @ \cup {threads.cwd, <<t.temp_data[1]>>}],
                     r.fs, threads.cwd)

\* one pass of the loop: os.rename(f, new_f) unless f is temp_data
make_bag_move(i, f) ==
    /\ At(i, "move")
    /\ f \in threads.t[i].todo
    /\ LET t == [threads.t[i] EXCEPT !.todo = @ \ {f}]
           src == threads.cwd \o <<f>>
           r == rename(threads.fs, src, t.temp_data \o <<f>>)
       IN  IF src = t.temp_data THEN Goes(i, t, threads.fs, threads.cwd)
           ELSE IF r.error THEN Goes(i, Raise(t), threads.fs, threads.cwd)
           ELSE Goes(i, [t EXCEPT !.wrote = @ \cup {threads.cwd, <<t.temp_data[1]>>}],
                     r.fs, threads.cwd)

\* os.rename(temp_data, 'data'); os.chmod
make_bag_rename_data(i) ==
    /\ At(i, "move")
    /\ threads.t[i].todo = {}
    /\ LET t == threads.t[i]
           r == rename(threads.fs, t.temp_data, threads.cwd \o <<"data">>)
       IN  IF r.error THEN Goes(i, Raise(t), threads.fs, threads.cwd)
           ELSE Goes(i, [t EXCEPT !.pc = "manifest",
                                  !.wrote = @ \cup {threads.cwd, <<t.temp_data[1]>>}],
                     r.fs, threads.cwd)

\* a file written under a relative name
WritesRelative(i, name, content, pc, Oxum) ==
    LET t == threads.t[i]
        w == write(threads.fs, threads.cwd \o <<name>>, content)
    IN  IF w.error THEN Goes(i, Raise(t), threads.fs, threads.cwd)
        ELSE Goes(i, [t EXCEPT !.pc = pc, !.Oxum = Oxum, !.wrote = @ \cup {threads.cwd}],
                  w.fs, threads.cwd)

\* Oxum = _make_manifest('manifest-md5.txt', 'data', processes, 'md5')
make_bag_manifest(i) ==
    /\ At(i, "manifest")
    /\ LET files == WalkFiles(threads.fs, threads.cwd \o <<"data">>)
       IN  WritesRelative(i, "manifest-md5.txt", ManifestContent(files), "bagit",
                          Cardinality(files))

\* open("bagit.txt", "w")
make_bag_bagit(i) ==
    /\ At(i, "bagit")
    /\ WritesRelative(i, "bagit.txt", BagitContent, "bag_info", threads.t[i].Oxum)

\* _make_tag_file('bag-info.txt', bag_info)
make_bag_bag_info(i) ==
    /\ At(i, "bag_info")
    /\ WritesRelative(i, "bag-info.txt", BagInfoContent(threads.t[i].Oxum), "tagmanifest",
                      threads.t[i].Oxum)

\* _make_tagmanifest_file('md5', bag_dir): bag_dir is absolute
make_bag_tagmanifest(i) ==
    /\ At(i, "tagmanifest")
    /\ LET t == threads.t[i]
           files == {f \in ListDir(threads.fs, bag_dir[i]) :
                        /\ bag_dir[i] \o <<f>> \in DOMAIN threads.fs.files
                        /\ f # "tagmanifest-md5.txt"}
           w == write(threads.fs, bag_dir[i] \o <<"tagmanifest-md5.txt">>,
                      TagmanifestContent({<<f, threads.fs.files[bag_dir[i] \o <<f>>]>> : f \in files}))
       IN  Goes(i, [t EXCEPT !.pc = "finally", !.wrote = @ \cup {bag_dir[i]}],
                w.fs, threads.cwd)

\* finally: os.chdir(old_dir)
make_bag_finally(i) ==
    /\ At(i, "finally")
    /\ Goes(i, [threads.t[i] EXCEPT !.pc = IF threads.t[i].failed THEN "raised"
                                            ELSE "return"],
            threads.fs, threads.t[i].old_dir)

\* return Bag(bag_dir): BagError when bag_dir has no bagit.txt
make_bag_return(i) ==
    /\ At(i, "return")
    /\ Goes(i, [threads.t[i] EXCEPT !.pc =
                   IF bag_dir[i] \o <<"bagit.txt">> \in DOMAIN threads.fs.files
                   THEN "done" ELSE "raised"],
            threads.fs, threads.cwd)

NextThreads ==
    \/ \E i \in Callers : make_bag_old_dir(i)
    \/ \E i \in Callers : make_bag_chdir(i)
    \/ \E i \in Callers : make_bag_mkdtemp(i)
    \/ \E i \in Callers : make_bag_listdir(i)
    \/ \E i \in Callers, f \in {"a1", "b1", "tmp1", "tmp2", "data", "manifest-md5.txt",
                                "bagit.txt", "bag-info.txt", "tagmanifest-md5.txt"} :
          make_bag_move(i, f)
    \/ \E i \in Callers : make_bag_rename_data(i)
    \/ \E i \in Callers : make_bag_manifest(i)
    \/ \E i \in Callers : make_bag_bagit(i)
    \/ \E i \in Callers : make_bag_bag_info(i)
    \/ \E i \in Callers : make_bag_tagmanifest(i)
    \/ \E i \in Callers : make_bag_finally(i)
    \/ \E i \in Callers : make_bag_return(i)

SpecThreads == Init /\ [][NextThreads]_vars

(***************************************************************************)
(* One caller alone: make_bag, then Bag.save(manifests=True) on the Bag it *)
(* returned, with an exception possible at every step (a file that cannot  *)
(* be written, a failed pre-check, a value that is not a string).          *)
(***************************************************************************)
TrySteps == {"mkdtemp", "listdir", "move", "manifest", "bagit", "bag_info", "tagmanifest"}

\* an exception inside make_bag's try block
make_bag_step_raises(i) ==
    /\ threads.t[i].pc \in TrySteps
    /\ Goes(i, Raise(threads.t[i]), threads.fs, threads.cwd)

\* Bag.save: old_dir = os.path.abspath(os.path.curdir)
save_old_dir(i) ==
    /\ At(i, "done")
    /\ Goes(i, [threads.t[i] EXCEPT !.pc = "save_chdir", !.old_dir = threads.cwd],
            threads.fs, threads.cwd)

\* os.chdir(self.path)
save_chdir(i) ==
    /\ At(i, "save_chdir")
    /\ Goes(i, [threads.t[i] EXCEPT !.pc = "save_manifest"], threads.fs, bag_dir[i])

SaveSteps == {"save_manifest", "save_tag_file", "save_tagmanifest"}

\* an exception inside save: the BagError of the permission checks, or one
\* from a helper; save has no handler and no finally
save_raises(i) ==
    /\ threads.t[i].pc \in SaveSteps
    /\ Goes(i, [threads.t[i] EXCEPT !.pc = "save_raised", !.failed = TRUE],
            threads.fs, threads.cwd)

\* oxum = _make_manifest('manifest-md5.txt', 'data', processes, 'md5')
save_manifest(i) ==
    /\ At(i, "save_manifest")
    /\ LET files == WalkFiles(threads.fs, threads.cwd \o <<"data">>)
       IN  WritesRelative(i, "manifest-md5.txt", ManifestContent(files), "save_tag_file",
                          Cardinality(files))

\* _make_tag_file(self.tag_file_name, self.info)
save_tag_file(i) ==
    /\ At(i, "save_tag_file")
    /\ WritesRelative(i, "bag-info.txt", BagInfoContent(threads.t[i].Oxum),
                      "save_tagmanifest", threads.t[i].Oxum)

\* _make_tagmanifest_file(alg, self.path); self._load_manifests()
save_tagmanifest(i) ==
    /\ At(i, "save_tagmanifest")
    /\ LET t == threads.t[i]
           files == {f \in ListDir(threads.fs, bag_dir[i]) :
                        /\ bag_dir[i] \o <<f>> \in DOMAIN threads.fs.files
                        /\ f # "tagmanifest-md5.txt"}
           w == write(threads.fs, bag_dir[i] \o <<"tagmanifest-md5.txt">>,
                      TagmanifestContent({<<f, threads.fs.files[bag_dir[i] \o <<f>>]>> : f \in files}))
       IN  Goes(i, [t EXCEPT !.pc = "save_chdir_back"], w.fs, threads.cwd)

\* os.chdir(old_dir)
save_chdir_back(i) ==
    /\ At(i, "save_chdir_back")
    /\ Goes(i, [threads.t[i] EXCEPT !.pc = "saved"], threads.fs, threads.t[i].old_dir)

\* the caller of the model
Alone == {1}

NextAlone ==
    \/ \E i \in Alone : make_bag_old_dir(i)
    \/ \E i \in Alone : make_bag_chdir(i)
    \/ \E i \in Alone : make_bag_mkdtemp(i)
    \/ \E i \in Alone : make_bag_listdir(i)
    \/ \E i \in Alone, f \in {"a1", "data", "tmp1"} : make_bag_move(i, f)
    \/ \E i \in Alone : make_bag_rename_data(i)
    \/ \E i \in Alone : make_bag_manifest(i)
    \/ \E i \in Alone : make_bag_bagit(i)
    \/ \E i \in Alone : make_bag_bag_info(i)
    \/ \E i \in Alone : make_bag_tagmanifest(i)
    \/ \E i \in Alone : make_bag_step_raises(i)
    \/ \E i \in Alone : make_bag_finally(i)
    \/ \E i \in Alone : make_bag_return(i)
    \/ \E i \in Alone : save_old_dir(i)
    \/ \E i \in Alone : save_chdir(i)
    \/ \E i \in Alone : save_manifest(i)
    \/ \E i \in Alone : save_tag_file(i)
    \/ \E i \in Alone : save_tagmanifest(i)
    \/ \E i \in Alone : save_raises(i)
    \/ \E i \in Alone : save_chdir_back(i)

SpecAlone == Init /\ [][NextAlone]_vars

(***************************************************************************)
(* The pool at work and the parent interrupted (KeyboardInterrupt raised   *)
(* in the parent while it waits in pool.map).                              *)
(***************************************************************************)
PoolStep(p2) ==
    /\ pool' = p2
    /\ UNCHANGED <<mainVars, threads, loaded>>

\* pool = multiprocessing.Pool(...); pool.map(f, args): the workers are
\* started and every task is queued
pool_create(op) ==
    /\ pool.parent = "idle"
    /\ PoolStep([PoolIdle EXCEPT !.op = op, !.parent = "map", !.pending = PoolTasks,
                                 !.alive = Workers])

\* the pool's task handler gives a queued task to a free worker; late counts
\* the tasks handed out after the call has ended
worker_takes(w, task) ==
    /\ w \in pool.alive
    /\ pool.running[w] = 0
    /\ task \in pool.pending
    /\ PoolStep([pool EXCEPT !.running[w] = task, !.pending = @ \ {task},
                             !.late = IF pool.parent = "raised" THEN @ + 1 ELSE @])

\* a worker finishes its file
worker_done(w) ==
    /\ w \in pool.alive
    /\ pool.running[w] # 0
    /\ PoolStep([pool EXCEPT !.running[w] = 0, !.done = @ \cup {pool.running[w]}])

\* pool.map returns; then pool.terminate() in the finally clause of
\* _validate_entries, pool.close() and pool.join() in _make_manifest
pool_map_returns ==
    /\ pool.parent = "map"
    /\ pool.done = PoolTasks
    /\ PoolStep([pool EXCEPT !.parent = "returned", !.alive = {}])

\* KeyboardInterrupt in the parent inside pool.map
interrupt ==
    /\ pool.parent = "map"
    /\ PoolStep([pool EXCEPT !.parent = "unwinding", !.interrupted = TRUE])

\* the exception leaves the call.  _validate_entries: finally pool.terminate(),
\* then the bare except logs and raises.  _make_manifest has no handler and
\* no finally: the pool is left as it is.
call_raises ==
    /\ pool.parent = "unwinding"
    /\ PoolStep(IF pool.op = "validate"
                THEN [pool EXCEPT !.parent = "raised", !.alive = {}, !.pending = {},
                                  !.running = [w \in Workers |-> 0]]
                ELSE [pool EXCEPT !.parent = "raised"])

NextPool ==
    \/ \E op \in PoolOps : pool_create(op)
    \/ \E w \in Workers, task \in PoolTasks : worker_takes(w, task)
    \/ \E w \in Workers : worker_done(w)
    \/ pool_map_returns
    \/ interrupt
    \/ call_raises

SpecPool == Init /\ [][NextPool]_vars

(***************************************************************************)
(* Bags whose payload manifests do not list the same files: a line is      *)
(* taken out of one manifest by hand, and save(manifests=False) brings the *)
(* tag manifests up to date with the edited file.                          *)
(***************************************************************************)
RemoveAt(lines, i) == SubSeq(lines, 1, i - 1) \o SubSeq(lines, i + 1, Len(lines))

DropManifestLine(alg, i) ==
    /\ Edit("drop_manifest_line")
    /\ ManifestName(alg) \in DOMAIN root
    /\ i \in 1..Len(root[ManifestName(alg)].lines)
    /\ root' = WriteFile(root, ManifestName(alg),
                        ManifestFile(RemoveAt(root[ManifestName(alg)].lines, i)))
    /\ UNCHANGED <<payload, rootdirs>>

NextDisagree ==
    \/ \E processes \in ProcessInputs, checksum \in ChecksumInputs, reversed \in BOOLEAN :
          MakeBag(EmptyMap, processes, checksum, reversed)
    \/ Load
    \/ \E manifests \in BOOLEAN : Save(1, manifests, FALSE)
    \/ \E processes \in ProcessInputs, fast \in BOOLEAN : Validate(processes, fast)
    \/ Handled
    \/ \E alg \in {"md5", "sha1"}, i \in 1..MaxFiles : DropManifestLine(alg, i)

SpecDisagree == Init /\ [][NextDisagree]_vars

(***************************************************************************)
(* Manifests written by another tool, whose lines name paths with escaped  *)
(* carriage returns and line feeds: upper-case and lower-case hex digits,  *)
(* one escape or several.                                                  *)
(***************************************************************************)
EscapedPaths ==
    {<<"data", "/", "a", "%", "0", "D">>,
     <<"data", "/", "a", "%", "0", "d">>,
     <<"data", "/", "%", "0", "a", "b">>,
     <<"data", "/", "%", "0", "A", "%", "0", "A">>,
     <<"data", "/", "%", "0", "A", "%", "0", "A", "%", "0", "A">>,
     <<"data", "/", "%", "0", "D", "%", "0", "A", "%", "0", "d", "%", "0", "a">>}

NextDecode ==
    \/ \E processes \in ProcessInputs, checksum \in ChecksumInputs, reversed \in BOOLEAN :
          MakeBag(EmptyMap, processes, checksum, reversed)
    \/ \E alg \in {"md5", "sha1"}, path \in EscapedPaths : TamperManifest(alg, path)
    \/ Load
    \/ \E processes \in ProcessInputs, fast \in BOOLEAN : Validate(processes, fast)
    \/ Handled

SpecDecode == Init /\ [][NextDecode]_vars

(***************************************************************************)
(* bag-info.txt files written by hand, with values folded over several     *)
(* lines: a continuation line indented by two spaces, by one space, two    *)
(* continuation lines, and no continuation line.                           *)
(***************************************************************************)
FoldedInputs ==
    {TagFile(FALSE, <<"External-Description", ":", " ", "line one", "LF",
                      " ", " ", "continued line two", "LF",
                      "Contact-Name", ":", " ", "Alice", "LF">>),
     TagFile(FALSE, <<"External-Description", ":", " ", "line one", "LF",
                      " ", "continued line two", "LF",
                      "Contact-Name", ":", " ", "Alice", "LF">>),
     TagFile(FALSE, <<"External-Description", ":", " ", "line one", "LF",
                      " ", "two", "LF",
                      " ", "three", "LF">>),
     TagFile(FALSE, <<"External-Description", ":", " ", "line one", "LF",
                      "Contact-Name", ":", " ", "Alice", "LF">>)}

WriteBagInfo(file) ==
    /\ Edit("write_bag_info")
    /\ root' = WriteFile(root, BAG_INFO_TXT, file)
    /\ UNCHANGED <<payload, rootdirs>>

NextFolded ==
    \/ \E checksum \in ChecksumInputs : MakeBag(EmptyMap, 1, checksum, FALSE)
    \/ \E file \in FoldedInputs : WriteBagInfo(file)
    \/ Load
    \/ \E processes \in ProcessInputs, fast \in BOOLEAN : Validate(processes, fast)
    \/ Handled

SpecFolded == Init /\ [][NextFolded]_vars

(***************************************************************************)
(* Bag objects opened one after the other.                                 *)
(***************************************************************************)
LoadedStep(l2) ==
    /\ loaded' = l2
    /\ UNCHANGED <<mainVars, threads, pool>>

\* the program imports one of the two modules
ImportModule(impl) ==
    /\ loaded.impl = "none"
    /\ LoadedStep([loaded EXCEPT !.impl = impl])

\* bagit.py: Bag(path); __init__ sets self.entries = {} and self.algs = [],
\* _load_manifests fills them
OpenBagitBag(d) ==
    /\ loaded.impl = "bagit.py"
    /\ Len(loaded.objs) < MaxBags
    /\ LET m == ReadManifests(d, ManifestAlgs(d), EmptyMap, <<>>)
       IN  LoadedStep([loaded EXCEPT !.objs =
               Append(@, [path |-> d, own |-> TRUE, entries |-> m.entries, algs |-> m.algs])])

\* core.py: b = Bag(path); b.open(): __init__ sets only self.path, and
\* load_manifests does self.algs.append and self.entries[...] = ... on the
\* objects the class attributes name
OpenCoreBag(d) ==
    /\ loaded.impl = "core.py"
    /\ Len(loaded.objs) < MaxBags
    /\ LET m == ReadManifests(d, ManifestAlgs(d), loaded.class.entries, loaded.class.algs)
       IN  LoadedStep([loaded EXCEPT
               !.class = [entries |-> m.entries, algs |-> m.algs],
               !.objs = Append(@, [path |-> d, own |-> FALSE, entries |-> EmptyMap,
                                   algs |-> <<>>])])

NextLoaded ==
    \/ \E impl \in Implementations : ImportModule(impl)
    \/ \E d \in BagDirs : OpenBagitBag(d)
    \/ \E d \in BagDirs : OpenCoreBag(d)

SpecLoaded == Init /\ [][NextLoaded]_vars

(***************************************************************************)
(* Directories with subdirectories: a payload name may hold "/".           *)
(***************************************************************************)
\* the names of files in a tree of depth two
TreeNames == {<<"a">>, <<"b">>, <<"a", "/", "a">>, <<"d", "/", "a">>}

\* a name needs its directory: a/a cannot stand next to the file a
TreeShaped(names) == ~({<<"a">>, <<"a", "/", "a">>} \subseteq names)

TreeDirs ==
    {[n \in {<<"b">>, <<"a", "/", "a">>} |-> "x"],
     [n \in {<<"a">>, <<"d", "/", "a">>} |-> IF n = <<"a">> THEN "x" ELSE "zz"],
     [n \in {<<"a", "/", "a">>, <<"d", "/", "a">>} |-> "y"]}

InitTree ==
    /\ payload \in TreeDirs
    /\ root = EmptyMap
    /\ rootdirs = {}
    /\ made = FALSE
    /\ bag = NoBag
    /\ result = NoResult
    /\ lastOp = "init"
    /\ manifested = EmptyMap
    /\ edits = 0
    /\ threads = ThreadsStart
    /\ pool = PoolIdle
    /\ loaded = NothingLoaded

\* a file added below data/, in a subdirectory or not
AddTreeFile(name, content) ==
    /\ TreeShaped(DOMAIN payload \cup {name})
    /\ AddPayloadFile(name, content)

NextTree ==
    \/ \E processes \in ProcessInputs, checksum \in ChecksumInputs, reversed \in BOOLEAN :
          MakeBag(EmptyMap, processes, checksum, reversed)
    \/ Load
    \/ \E processes \in ProcessInputs, manifests \in BOOLEAN, reversed \in BOOLEAN :
          Save(processes, manifests, reversed)
    \/ \E processes \in ProcessInputs, fast \in BOOLEAN : Validate(processes, fast)
    \/ Handled
    \/ \E name \in TreeNames, content \in Contents : AddTreeFile(name, content)
    \/ \E name \in TreeNames : DeletePayloadFile(name)
    \/ \E name \in TreeNames, content \in Contents : ChangePayloadFile(name, content)

SpecTree == InitTree /\ [][NextTree]_vars

(***************************************************************************)
(* Vocabulary of the properties.                                           *)
(***************************************************************************)
DefaultRun == result.op = "validate" /\ ~result.fast
FastRun == result.op = "validate" /\ result.fast

\* the entries loop of validate() was reached and found something
ReachedEntries == result.error = "BagValidationError" /\ result.message = "invalid bag"

OxumFailure ==
    /\ ~result.ok
    /\ result.error = "BagValidationError"
    /\ result.message = "Oxum error"
    /\ result.details = <<>>

DetailsOf(type, path) ==
    {i \in 1..Len(result.details) :
        result.details[i].type = type /\ result.details[i].path = path}

DetailsAt(path) == {i \in 1..Len(result.details) : result.details[i].path = path}

\* a file name that the manifest codec writes and reads back unchanged
PlainName(n) == _decode_filename(_encode_filename(_decode_filename(n))) = n

PlainNames ==
    /\ \A n \in DOMAIN payload : PlainName(n)
    /\ \A n \in DOMAIN manifested : PlainName(n)

\* the listed files that are absent, the files under data/ that are not listed
\* and the (path, algorithm) pairs whose file exists with another digest
ListedAbsent == {p \in DOMAIN bag.entries : ~isfile(p, payload, root)}
Unlisted == payload_files(payload) \ DOMAIN bag.entries
Altered ==
    {pa \in (DOMAIN bag.entries) \X bag.algs :
        /\ isfile(pa[1], payload, root)
        /\ pa[2] \in DOMAIN bag.entries[pa[1]]
        /\ bag.entries[pa[1]][pa[2]] # Digest(pa[2], FileAt(pa[1], payload, root))}

\* Payload-Oxum as the payload now under data/ defines it
OxumOfPayload ==
    FormatOxum(TotalBytes(payload, DOMAIN payload), Cardinality(DOMAIN payload))

\* the one file whose bytes differ from those the manifests were made from
ChangedFiles ==
    {n \in DOMAIN payload \cap DOMAIN manifested : payload[n] # manifested[n]}

(***************************************************************************)
(* C1.  The bag make_bag returns passes validate() in default mode and     *)
(* with fast=True, whatever the payload file names, the checksum list and  *)
(* the process count.                                                      *)
(***************************************************************************)
C1_MakeBagValidates ==
    (lastOp = "make_bag" /\ result.op = "validate") => result.ok

(***************************************************************************)
(* C2.  After the bytes of one payload file of a single-algorithm bag made *)
(* by make_bag are replaced by other bytes of the same length,             *)
(* validate(fast=True) succeeds and validate() raises BagValidationError   *)
(* with exactly one detail: the ChecksumMismatch of that file, with the    *)
(* recorded digest as expected and the recomputed digest as found.         *)
(***************************************************************************)
C2_FlippedByteDetails ==
    (/\ lastOp = "change_payload"
     /\ edits = 1
     /\ Cardinality(bag.algs) = 1
     /\ DOMAIN payload = DOMAIN manifested
     /\ \A n \in ChangedFiles : Size(payload[n]) = Size(manifested[n])
     /\ result.op = "validate")
    => IF result.fast THEN result.ok
       ELSE /\ ~result.ok
            /\ result.error = "BagValidationError"
            /\ Len(result.details) = 1
            /\ \E n \in ChangedFiles, alg \in bag.algs :
                  LET d == result.details[1]
                  IN  /\ d.type = "ChecksumMismatch"
                      /\ d.path = DataPath(n)
                      /\ d.algorithm = alg
                      /\ d.expected = Digest(alg, Bytes(manifested[n]))
                      /\ d.found = Digest(alg, Bytes(payload[n]))

(***************************************************************************)
(* C3.  As claimed: validate() in default mode runs to completion, its     *)
(* BagValidationError carries every FileMissing, UnexpectedFile and        *)
(* ChecksumMismatch present in the bag, and it succeeds only when there    *)
(* are none; deleting a payload file from a bag made by make_bag gives     *)
(* details = [FileMissing(that file)].                                     *)
(***************************************************************************)
AllProblemsInDetails ==
    /\ \A p \in ListedAbsent : DetailsOf("FileMissing", p) # {}
    /\ \A p \in Unlisted : DetailsOf("UnexpectedFile", p) # {}
    /\ \A pa \in Altered :
          \E i \in DetailsOf("ChecksumMismatch", pa[1]) :
              result.details[i].algorithm = pa[2]

NoProblems == ListedAbsent = {} /\ Unlisted = {} /\ Altered = {}

C3_RunsToCompletion ==
    DefaultRun =>
        /\ result.ok => NoProblems
        /\ ~NoProblems => (~result.ok /\ AllProblemsInDetails)
        /\ (lastOp = "delete_payload" /\ edits = 1 /\ PlainNames)
           => \E n \in DOMAIN manifested \ DOMAIN payload :
                 /\ Len(result.details) = 1
                 /\ result.details[1].type = "FileMissing"
                 /\ result.details[1].path = DataPath(n)

(***************************************************************************)
(* C3, amended.  validate() in default mode checks Payload-Oxum before the *)
(* entries and stops there, with empty details, when it disagrees with     *)
(* data/; once it reaches the entries it runs to completion and details    *)
(* carries every FileMissing, UnexpectedFile and ChecksumMismatch present; *)
(* it succeeds only when there are none.  Deleting a payload file from a   *)
(* bag made by make_bag makes validate() fail with the Oxum mismatch and   *)
(* empty details, in default mode as with fast=True.                       *)
(***************************************************************************)
C3_StopsAtOxumThenCompletes ==
    /\ DefaultRun =>
          /\ result.ok => NoProblems
          /\ ReachedEntries => AllProblemsInDetails
          /\ (~NoProblems /\ ~ReachedEntries) => (~result.ok /\ result.details = <<>>)
    /\ (result.op = "validate" /\ lastOp = "delete_payload" /\ edits = 1) => OxumFailure

C3_Witness ==
    /\ DefaultRun
    /\ lastOp = "delete_payload"
    /\ edits = 1
    /\ PlainNames
    /\ ListedAbsent # {}
    /\ OxumFailure

(***************************************************************************)
(* C4.  Bag(dir) fails when a manifest line names a path that is absolute  *)
(* or keeps a ".." segment after normalization: no such path is a key of   *)
(* Bag.entries.                                                            *)
(***************************************************************************)
IsUnsafe(path) ==
    \/ path # <<>> /\ Head(path) = "/"
    \/ <<"..">> \in Range(SplitSlash(normpath(path), <<>>))

C4_UnsafePathsRejected ==
    lastOp = "load" => \A p \in DOMAIN bag.entries : ~IsUnsafe(p)

(***************************************************************************)
(* C5.  After any additions, deletions and content changes under data/,    *)
(* save(manifests=True) on the same Bag object makes it valid again:       *)
(* is_valid() returns True without a reload.  (Stated for file names the   *)
(* manifest codec reads back unchanged.)                                   *)
(***************************************************************************)
C5_SaveManifestsRevalidates ==
    (lastOp = "save_manifests" /\ PlainNames)
    => is_valid(bag, payload, root, rootdirs, FALSE) = [raised |-> "", value |-> TRUE]

(***************************************************************************)
(* C6.  After every successful save(), Bag.entries is exactly what parsing *)
(* the manifest and tagmanifest files now on disk gives.                   *)
(***************************************************************************)
ParsedFromDisk == OpenBag(root).bag.entries

C6_EntriesMatchDisk ==
    lastOp \in {"save", "save_manifests"}
    => /\ DOMAIN bag.entries = DOMAIN ParsedFromDisk
       /\ \A p \in DOMAIN bag.entries \cap DOMAIN ParsedFromDisk :
             bag.entries[p] = ParsedFromDisk[p]

(***************************************************************************)
(* C7.  As claimed: after make_bag and after every successful save, with   *)
(* manifests True or False, Payload-Oxum, if present in the info, equals   *)
(* <bytes under data/>.<files under data/>.                                *)
(***************************************************************************)
OxumCurrent ==
    "Payload-Oxum" \in DOMAIN bag.info => bag.info["Payload-Oxum"] = Str(OxumOfPayload)

C7_OxumAfterEverySave ==
    lastOp \in {"make_bag", "save", "save_manifests"} => OxumCurrent

(***************************************************************************)
(* C7, amended.  After make_bag and after every successful                 *)
(* save(manifests=True) of a bag that has a manifest, Payload-Oxum, if     *)
(* present in the info, equals <bytes under data/>.<files under data/>,    *)
(* and bag-info.txt records the same value; save(manifests=False) leaves   *)
(* Payload-Oxum as it was.                                                 *)
(***************************************************************************)
C7_OxumAfterManifestSave ==
    /\ []((lastOp \in {"make_bag", "save_manifests"} /\ bag.algs # {}) =>
             /\ OxumCurrent
             /\ _load_tag_file(root[bag.tag_file_name]) = bag.info)
    /\ [][lastOp' = "save" => bag'.info = bag.info]_vars

C7_Witness ==
    /\ lastOp = "save_manifests"
    /\ bag.algs # {}
    /\ edits > 0
    /\ payload \notin InitialDirs
    /\ "Payload-Oxum" \in DOMAIN bag.info
    /\ bag.info["Payload-Oxum"] = Str(OxumOfPayload)

(***************************************************************************)
(* C8.  From a valid bag, adding a file or a directory that no manifest    *)
(* references in the bag root leaves validate() succeeding; adding a file  *)
(* that no manifest references under data/ makes validate() fail and       *)
(* is_valid() return False.                                                *)
(***************************************************************************)
\* validate() in default mode succeeds on the bag object b over the given tree
Valid(b, pl, rt, dirs) == validate(b, pl, rt, dirs, 1, FALSE).ok

C8_RootIgnoredDataChecked ==
    [][\A b2 \in {bag'}, pl2 \in {payload'}, rt2 \in {root'}, dirs2 \in {rootdirs'} :
          /\ (lastOp' \in {"add_root_file", "add_root_dir"}
               /\ Valid(bag, payload, root, rootdirs))
             => Valid(b2, pl2, rt2, dirs2)
          /\ (lastOp' = "add_payload" /\ edits' = edits + 1
               /\ Valid(bag, payload, root, rootdirs))
             => /\ ~Valid(b2, pl2, rt2, dirs2)
                /\ is_valid(b2, pl2, rt2, dirs2, FALSE)
                   = [raised |-> "", value |-> FALSE]]_vars

C8_Witness ==
    /\ lastOp = "add_root_file"
    /\ IGNOREFILE \in DOMAIN root
    /\ IGNOREFILE \notin DOMAIN bag.entries
    /\ DefaultRun
    /\ result.ok

(***************************************************************************)
(* C9.  In a v0.97 bag validated in default mode, each file listed but     *)
(* absent contributes exactly one detail, a FileMissing, each unlisted     *)
(* file under data/ exactly one, an UnexpectedFile; removing bag-info.txt  *)
(* and adding a file under data/ gives exactly two details.  (Stated for   *)
(* file names the manifest codec reads back unchanged.)                    *)
(***************************************************************************)
C9_OneDetailPerFile ==
    (DefaultRun /\ bag.version = "0.97" /\ ReachedEntries /\ PlainNames)
    => /\ \A p \in ListedAbsent :
             Cardinality(DetailsAt(p)) = 1 /\ DetailsOf("FileMissing", p) # {}
       /\ \A p \in Unlisted :
             Cardinality(DetailsAt(p)) = 1 /\ DetailsOf("UnexpectedFile", p) # {}

(***************************************************************************)
(* C10.  save() with manifests=False leaves every manifest-<alg>.txt and   *)
(* every file under data/ unchanged and rewrites only the tag file and the *)
(* tagmanifests; a bag whose payload was changed after bagging is still    *)
(* invalid after save() and a reload.                                      *)
(***************************************************************************)
Rewritable(f) == f = bag.tag_file_name \/ IsTagmanifestName(f)

C10_SaveLeavesManifests ==
    [][lastOp' = "save" =>
          \A pl2 \in {payload'}, rt2 \in {root'}, dirs2 \in {rootdirs'} :
             /\ pl2 = payload
             /\ dirs2 = rootdirs
             /\ \A f \in DOMAIN root :
                   ~Rewritable(f) => (f \in DOMAIN rt2 /\ rt2[f] = root[f])
             /\ \A f \in DOMAIN rt2 \ DOMAIN root : Rewritable(f)
             /\ pl2 # manifested
                => ~Valid(OpenBag(rt2).bag, pl2, rt2, dirs2)]_vars

C10_Witness ==
    /\ lastOp = "save"
    /\ payload # manifested
    /\ \E alg \in bag.algs : ManifestName(alg) \in DOMAIN root
    /\ BAG_INFO_TXT \in DOMAIN root
    /\ ~Valid(OpenBag(root).bag, payload, root, rootdirs)

(***************************************************************************)
(* C11.  make_bag raises and leaves the directory tree as it was whenever  *)
(* bag_dir does not exist, some entry below bag_dir is not readable, or    *)
(* bag_dir itself or some subdirectory at any depth is not writable.       *)
(***************************************************************************)
PreCheckCondition(exists, denied) ==
    \/ ~exists
    \/ \E x \in denied : x.depth >= 1 /\ x.access = "r"
    \/ \E x \in denied : x.kind = "dir" /\ x.access = "w"

C11_PreChecksRefuse ==
    [][\A exists \in BOOLEAN, denied \in AccessInputs, processes \in ProcessInputs,
          checksum \in ChecksumInputs, reversed \in BOOLEAN :
          (/\ PreCheckCondition(exists, denied)
           /\ MakeBagChecked(exists, denied, EmptyMap, processes, checksum, reversed))
          => /\ lastOp' = "make_bag_refused"
             /\ UNCHANGED <<payload, root, rootdirs, made>>]_vars

(***************************************************************************)
(* C12.  A make_bag that raised after it began changing the directory      *)
(* leaves no directory that loads and validates: a directory on which      *)
(* Bag(dir).validate() succeeds is what a completed make_bag writes.       *)
(***************************************************************************)
CompleteBag ==
    /\ rootdirs = {"data"}
    /\ \E bag_info \in BagInfoInputs, processes \in ProcessInputs,
          checksum \in ChecksumInputs, reversed \in BOOLEAN :
          root = MakeBagRoot(payload, bag_info, processes, checksum, reversed)

C12_NoPartialBagValidates ==
    (DefaultRun /\ result.ok) => CompleteBag

(***************************************************************************)
(* C13.  make_bag with one process and make_bag with several processes on  *)
(* identical directory contents and the same algorithms write the same     *)
(* manifest-<alg>.txt and tagmanifest-<alg>.txt files: whatever run made   *)
(* the bag in the directory, any other run writes these files the same.    *)
(***************************************************************************)
IsManifestFile(f) == Len(f) = 3 /\ f[1] \in {"manifest-", "tagmanifest-"} /\ f[3] = ".txt"

SameManifestFiles(rt1, rt2) ==
    \A f \in DOMAIN rt1 : IsManifestFile(f) => rt1[f] = rt2[f]

C13_ParallelEquivalence ==
    lastOp = "make_bag" =>
        \A processes \in ProcessInputs, checksum \in ChecksumInputs, reversed \in BOOLEAN :
            LET other == MakeBagRoot(manifested, EmptyMap, processes, checksum, reversed)
            IN  DOMAIN other = DOMAIN root => SameManifestFiles(root, other)

\* what does hold: the payload manifests are the same in every run
C13_PayloadManifestsAgree ==
    lastOp = "make_bag" =>
        \A processes \in ProcessInputs, checksum \in ChecksumInputs, reversed \in BOOLEAN :
            LET other == MakeBagRoot(manifested, EmptyMap, processes, checksum, reversed)
            IN  DOMAIN other = DOMAIN root =>
                    \A alg \in Range(checksum_algos) :
                        ManifestName(alg) \in DOMAIN root =>
                            root[ManifestName(alg)] = other[ManifestName(alg)]

(***************************************************************************)
(* C14.  Reading back the tag file written from an info map gives the map: *)
(* after a save of a Bag whose info values (strings or lists of strings)   *)
(* hold no CR or LF, _load_tag_file of the tag file equals bag.info.       *)
(***************************************************************************)
Saved == lastOp \in {"save", "save_manifests"}

TextsOf(value) == IF value[1] = "list" THEN Range(value[2]) ELSE {value[2]}

NoNewlines(info) ==
    \A h \in DOMAIN info : \A t \in TextsOf(info[h]) : StripNewlines(t) = t

C14_TagFileRoundTrip ==
    (Saved /\ NoNewlines(bag.info)) => _load_tag_file(root[bag.tag_file_name]) = bag.info

(***************************************************************************)
(* C15.  _decode_filename(_encode_filename(s)) = s for every file name s,  *)
(* among them names holding CR or LF and names spelling %0A or %0D: every  *)
(* name of the payload make_bag has listed comes back from its encoding.   *)
(***************************************************************************)
C15_FilenameRoundTrip ==
    lastOp = "make_bag" =>
        \A n \in DOMAIN payload : _decode_filename(_encode_filename(DataPath(n))) = DataPath(n)

(***************************************************************************)
(* C16.  No info value, string or list element, adds a tag line: the tag   *)
(* file written from n values has n lines and parses to keys of the map.   *)
(***************************************************************************)
RECURSIVE NumValues(_, _)
NumValues(info, names) ==
    IF names = {} THEN 0
    ELSE LET h == CHOOSE x \in names : TRUE
         IN  (IF info[h][1] = "list" THEN Len(info[h][2]) ELSE 1)
             + NumValues(info, names \ {h})

C16_OneLinePerValue ==
    Saved =>
        LET file == root[bag.tag_file_name] IN
        /\ Len(SplitLines(file.lines, <<>>)) = NumValues(bag.info, DOMAIN bag.info)
        /\ ~ParsedTags(file).error
        /\ DOMAIN _load_tag_file(file) \subseteq DOMAIN bag.info

(***************************************************************************)
(* C17.  fetch_entries yields the (url, length, path) of each line of      *)
(* fetch.txt in order, files_to_be_fetched the path of each entry, and     *)
(* compare_fetch_with_fs the declared paths that are not files of data/.   *)
(***************************************************************************)
DeclaredPaths(rt) ==
    {fetch_entries(rt).entries[i][3] : i \in 1..Len(fetch_entries(rt).entries)}

C17_FetchPaths ==
    (bag.open /\ FETCH_TXT \in DOMAIN root /\ fetch_entries(root).error = "") =>
        /\ Len(fetch_entries(root).entries) = Len(root[FETCH_TXT].lines)
        /\ Range(files_to_be_fetched(root)) = DeclaredPaths(root)
        /\ compare_fetch_with_fs(payload, root)
               = DeclaredPaths(root) \ payload_files(payload)

(***************************************************************************)
(* C18.  validate() raises a validation error for every bag whose          *)
(* bagit.txt begins with a byte-order mark, in default and in fast mode,   *)
(* also when the bag is consistent otherwise.                              *)
(***************************************************************************)
HasBom == BAGIT_TXT \in DOMAIN root /\ root[BAGIT_TXT].bom

C18_BomRejected ==
    (result.op = "validate" /\ HasBom) =>
        ~result.ok /\ result.error = "BagValidationError"

\* a validate in fast mode of a bag that is consistent but for the mark
C18_Witness ==
    /\ result.op = "validate"
    /\ result.fast
    /\ HasBom
    /\ payload # EmptyMap
    /\ root = WriteFile(MakeBagRoot(payload, EmptyMap, 1, <<>>, FALSE), BAGIT_TXT,
                        [BagitTxt EXCEPT !.bom = TRUE])
    /\ bag = OpenBag(root).bag

(***************************************************************************)
(* C19.  is_valid(fast) returns True when validate(fast) returns, False    *)
(* when it raises, and raises nothing itself, whatever Payload-Oxum holds. *)
(***************************************************************************)
C19_IsValidNeverRaises ==
    result.op = "is_valid" =>
        /\ result.error = ""
        /\ result.ok = validate(bag, payload, root, rootdirs, 1, result.fast).ok

(***************************************************************************)
(* C20.  Two make_bag calls running at the same time in one process on     *)
(* two distinct directories do not interfere: when both have ended, each   *)
(* has returned its Bag, has written only inside its own directory, and    *)
(* its directory is a valid bag.                                           *)
(***************************************************************************)
BothEnded == \A i \in Callers : threads.t[i].pc \in {"done", "raised"}

\* what validate() checks, on the tree of the two threads
ValidBagAt(fs, d) ==
    LET data == WalkFiles(fs, d \o <<"data">>)
        File(name) == fs.files[d \o <<name>>]
        Has(name) == d \o <<name>> \in DOMAIN fs.files
    IN  /\ d \o <<"data">> \in fs.dirs
        /\ Has("manifest-md5.txt")
        /\ Has("bagit.txt")
        /\ Has("bag-info.txt") => File("bag-info.txt").n = Cardinality(data)
        /\ File("manifest-md5.txt").names = data
        /\ Has("tagmanifest-md5.txt") =>
               \A e \in File("tagmanifest-md5.txt").names : Has(e[1]) /\ File(e[1]) = e[2]

C20_ConcurrentCallsIndependent ==
    BothEnded =>
        \A i \in Callers :
            /\ threads.t[i].pc = "done"
            /\ threads.t[i].wrote \subseteq {bag_dir[i]}
            /\ ValidBagAt(threads.fs, bag_dir[i])

\* what does hold: a call that ran alone from start to end made a valid bag of
\* its own files
C20_SequentialCallsValid ==
    \A i \in Callers :
        (threads.t[i].pc = "done" /\ \A j \in Callers \ {i} : threads.t[j].pc = "start") =>
            /\ ValidBagAt(threads.fs, bag_dir[i])
            /\ threads.t[i].wrote = {bag_dir[i]}

(***************************************************************************)
(* C21.  The lines of every manifest-<alg>.txt written by make_bag or by   *)
(* save(manifests=True) are in ascending order of their path, for every    *)
(* shape of directory, files and subdirectories mixed.                     *)
(***************************************************************************)
Ascending(lines) ==
    \A i, j \in 1..Len(lines) : i < j => StrLess(lines[i][2], lines[j][2])

C21_ManifestLinesSorted ==
    lastOp \in {"make_bag", "save_manifests"} =>
        \A alg \in Range(checksum_algos) :
            ManifestName(alg) \in DOMAIN root => Ascending(root[ManifestName(alg)].lines)

(***************************************************************************)
(* C22.  validate(processes=N) with N > 1 has the outcome of               *)
(* validate(processes=1) on the same bag: both return True, or both raise  *)
(* the same error with the same set of details, whatever order the workers *)
(* finish in.                                                              *)
(***************************************************************************)
SameOutcome(v, w) ==
    /\ v.ok = w.ok
    /\ v.error = w.error
    /\ Range(v.details) = Range(w.details)

CallEnded == pool.parent \in {"returned", "raised"}

C23_InterruptStopsPool ==
    (pool.interrupted /\ CallEnded) =>
        /\ pool.parent = "raised"
        /\ pool.alive = {}
        /\ pool.late = 0

\* what does hold: for fixity checking the pool is terminated
C23_ValidatePoolTerminated ==
    (pool.op = "validate" /\ pool.interrupted /\ CallEnded) =>
        /\ pool.parent = "raised"
        /\ pool.alive = {}
        /\ pool.late = 0

(***************************************************************************)
(* C24.  make_bag and Bag.save leave the current working directory of the  *)
(* process as it was before the call on every exit path, a normal return   *)
(* or an exception at any step.                                            *)
(***************************************************************************)
Exited(i) == threads.t[i].pc \in {"return", "done", "raised", "saved", "save_raised"}

C24_CwdRestored ==
    \A i \in Alone : Exited(i) => threads.cwd = threads.t[i].old_dir

\* what does hold: make_bag restores it, also when it raises, and so does a
\* save that returns
C24_MakeBagRestoresCwd ==
    \A i \in Alone :
        threads.t[i].pc \in {"return", "done", "raised", "saved"}
            => threads.cwd = threads.t[i].old_dir

(***************************************************************************)
(* C25.  Each tagmanifest-<alg>.txt written by make_bag or save lists      *)
(* every regular file of the bag root except the files named               *)
(* tagmanifest-*.txt, each once with the digest of its bytes, in sorted    *)
(* order of file name whatever order the directory listing has.            *)
(***************************************************************************)
TagFilesOf(rt) == {f \in DOMAIN rt : ~IsTagmanifestName(f)}

ListsTagFiles(alg, rt) ==
    LET lines == rt[TagmanifestName(alg)].lines IN
    /\ {lines[i][2] : i \in 1..Len(lines)} = TagFilesOf(rt)
    /\ Len(lines) = Cardinality(TagFilesOf(rt))
    /\ \A i \in 1..Len(lines) : lines[i][1] = Digest(alg, rt[lines[i][2]])

Written == lastOp \in {"make_bag", "save", "save_manifests"}

C25_TagmanifestSortedComplete ==
    Written =>
        \A alg \in bag.algs :
            TagmanifestName(alg) \in DOMAIN root =>
                /\ ListsTagFiles(alg, root)
                /\ Ascending(root[TagmanifestName(alg)].lines)

\* what does hold: the files listed and their digests
C25_TagmanifestComplete ==
    Written =>
        \A alg \in bag.algs :
            TagmanifestName(alg) \in DOMAIN root => ListsTagFiles(alg, root)

(***************************************************************************)
(* C26.  After make_bag has succeeded the regular files under data/, by    *)
(* path below data/, and their contents are the regular files and contents *)
(* that were under bag_dir before the call: every child is moved under     *)
(* data/ with its name kept, a child named data to data/data, and no file  *)
(* is lost, duplicated or altered.                                         *)
(***************************************************************************)
FilesBelow(fs, d) == {Below(d, q) : q \in {r \in DOMAIN fs.files : IsPrefix(d, r)}}

PayloadFilesBelow(fs, d) ==
    {Below(d, q) : q \in {r \in DOMAIN fs.files : IsPrefix(d, r) /\ fs.files[r].kind = "payload"}}

C26_PayloadMovedIntact ==
    \A i \in Alone :
        threads.t[i].pc \in {"return", "done"} =>
            /\ FilesBelow(threads.fs, bag_dir[i] \o <<"data">>) = OwnFiles[i]
            /\ PayloadFilesBelow(threads.fs, bag_dir[i])
                   = {<<"data">> \o f : f \in OwnFiles[i]}
            /\ \A f \in OwnFiles[i] :
                   threads.fs.files[bag_dir[i] \o <<"data">> \o f] = PayloadContent(f[Len(f)])

\* make_bag has returned on the directory that had a child named data
C26_Witness ==
    /\ threads.t[1].pc = "done"
    /\ bag_dir[1] \o <<"data", "data", "a2">> \in DOMAIN threads.fs.files
    /\ bag_dir[1] \o <<"data", "a1">> \in DOMAIN threads.fs.files

(***************************************************************************)
(* C27.  Bag objects opened in one process on different bag directories    *)
(* share no state: the entries and the algorithm list of each object hold  *)
(* what its own manifests declare and nothing else, for the Bag class of   *)
(* bagit.py and for the one of bagit/core.py.                              *)
(***************************************************************************)
Declared(d) == ReadManifests(d, ManifestAlgs(d), EmptyMap, <<>>)

OwnStateOnly(k) ==
    /\ EntriesOf(loaded, k) = Declared(loaded.objs[k].path).entries
    /\ AlgsOf(loaded, k) = Declared(loaded.objs[k].path).algs

C27_BagsShareNoState ==
    \A k \in 1..Len(loaded.objs) : OwnStateOnly(k)

\* what does hold: the objects of bagit.py's class
C27_BagitBagsShareNoState ==
    loaded.impl = "bagit.py" => \A k \in 1..Len(loaded.objs) : OwnStateOnly(k)

(***************************************************************************)
(* C28.  When the payload manifests of a bag do not list the same files,   *)
(* validate takes a file as listed if at least one manifest lists it and   *)
(* compares its digest for the algorithms whose manifest lists it: a bag   *)
(* with a payload file that one manifest lists and another does not, whose *)
(* listed digests are all correct and whose Payload-Oxum fits, validates.  *)
(***************************************************************************)
\* some payload file is listed by one manifest of the bag and not by another
ManifestsDisagree(b) ==
    \E k \in payload_entries(b) : \E a \in b.algs : a \notin DOMAIN b.entries[k]

\* every listed file exists and has every digest listed for it
ListedDigestsCorrect(b, pl, rt) ==
    \A k \in DOMAIN b.entries :
        /\ isfile(k, pl, rt)
        /\ \A a \in DOMAIN b.entries[k] : b.entries[k][a] = Digest(a, FileAt(k, pl, rt))

\* the payload files are the files that some manifest lists
ListedSomewhere(b, pl) == payload_files(pl) = payload_entries(b)

C28_UnionOfManifests ==
    (/\ result.op = "validate"
     /\ ~result.fast
     /\ ManifestsDisagree(bag)
     /\ ListedSomewhere(bag, payload)
     /\ ListedDigestsCorrect(bag, payload, root)
     /\ _validate_structure(rootdirs, root).ok
     /\ _validate_bagittxt(root).ok
     /\ _validate_oxum(bag, payload).ok)
    => result.ok

C28_Witness ==
    /\ result.op = "validate"
    /\ ~result.fast
    /\ result.ok
    /\ ManifestsDisagree(bag)
    /\ lastOp = "save"
    /\ \E k \in payload_entries(bag) :
          DOMAIN bag.entries[k] = {"md5"} /\ "sha1" \in bag.algs

(***************************************************************************)
(* C29.  _decode_filename replaces every %0D by a carriage return and      *)
(* every %0A by a line feed, whether the hex digit is written in upper or  *)
(* lower case and however many escapes the name holds: the entries of a    *)
(* loaded bag are the fully decoded paths of its manifest lines.           *)
(***************************************************************************)
DecodeEvery(s) ==
    Replace(Replace(Replace(Replace(s, <<"%", "0", "D">>, <<"CR">>),
                            <<"%", "0", "d">>, <<"CR">>),
                    <<"%", "0", "A">>, <<"LF">>),
            <<"%", "0", "a">>, <<"LF">>)

ManifestPaths(rt) ==
    UNION {{rt[ManifestName(alg)].lines[i][2] : i \in 1..Len(rt[ManifestName(alg)].lines)} :
              alg \in Range(manifest_files(rt))}

C29_DecodesEveryEscape ==
    lastOp = "load" =>
        \A path \in ManifestPaths(root) :
            DecodeEvery(normpath(LStripStar(path))) \in DOMAIN bag.entries

\* how many times pat occurs in s
RECURSIVE Occurrences(_, _)
Occurrences(s, pat) ==
    IF s = <<>> THEN 0
    ELSE IF StartsWith(s, pat) THEN 1 + Occurrences(SubSeq(s, Len(pat) + 1, Len(s)), pat)
    ELSE Occurrences(Tail(s), pat)

\* what does hold: a path with at most two %0D and two %0A, none of them in
\* lower case, is decoded in full
C29_DecodesTwoUpperCase ==
    lastOp = "load" =>
        \A path \in ManifestPaths(root) :
            (/\ Occurrences(path, <<"%", "0", "D">>) <= re_IGNORECASE
             /\ Occurrences(path, <<"%", "0", "A">>) <= re_IGNORECASE
             /\ Occurrences(path, <<"%", "0", "d">>) = 0
             /\ Occurrences(path, <<"%", "0", "a">>) = 0)
            => DecodeEvery(normpath(LStripStar(path))) \in DOMAIN bag.entries

(***************************************************************************)
(* C30.  _parse_tags joins a continuation line (a line that begins with    *)
(* whitespace) to the value of the line before it, the two separated by a  *)
(* single space and the result trimmed: a loaded bag's info holds each     *)
(* folded value of bag-info.txt as its pieces joined by single spaces.     *)
(***************************************************************************)
\* the (name, value) pairs of a tag file whose continuation lines are joined
\* by a single space
RECURSIVE Unfolded(_, _, _, _, _)
Unfolded(lines, i, name, value, out) ==
    LET yielded == IF name # "" THEN Append(out, <<name, Strip(value)>>) ELSE out
    IN  IF i > Len(lines) THEN yielded
        ELSE LET line == lines[i] IN
        IF \A k \in 1..Len(line) : IsSpace(line[k])
        THEN Unfolded(lines, i + 1, name, value, out)
        ELSE IF IsSpace(line[1]) /\ name # ""
        THEN Unfolded(lines, i + 1, name, Strip(value) \o <<" ">> \o Strip(line), out)
        ELSE LET colon == IndexIn(":", line, 1)
             IN  Unfolded(lines, i + 1, Concat(Strip(SubSeq(line, 1, colon - 1))),
                          SubSeq(line, colon + 1, Len(line)), yielded)

UnfoldedInfo(file) ==
    LoadTags(Unfolded(SplitLines(file.lines, <<>>), 1, "", <<>>, <<>>), 1, EmptyMap)

\* the lines of the file that continue a value
ContinuationLines(file) ==
    LET lines == SplitLines(file.lines, <<>>)
    IN  {i \in 2..Len(lines) : lines[i] # <<>> /\ IsSpace(lines[i][1])}

LoadedFolded ==
    /\ lastOp = "load"
    /\ BAG_INFO_TXT \in DOMAIN root
    /\ root[BAG_INFO_TXT] \in FoldedInputs
    /\ ContinuationLines(root[BAG_INFO_TXT]) # {}

C30_ContinuationJoinedBySpace ==
    LoadedFolded => bag.info = UnfoldedInfo(root[BAG_INFO_TXT])

\* what does hold: a value continued by one line that is indented by one
\* space comes out joined by that space
C30_OneSpaceOneLine ==
    (/\ LoadedFolded
     /\ LET lines == SplitLines(root[BAG_INFO_TXT].lines, <<>>)
        IN  \A i \in ContinuationLines(root[BAG_INFO_TXT]) :
                /\ ~IsSpace(lines[i][2])
                /\ i - 1 \notin ContinuationLines(root[BAG_INFO_TXT]))
    => bag.info = UnfoldedInfo(root[BAG_INFO_TXT])

C30_OneSpaceWitness ==
    /\ LoadedFolded
    /\ "External-Description" \in DOMAIN bag.info
    /\ bag.info["External-Description"] = Str(<<"line one", " ", "continued line two">>)

=============================================================================
